---- MODULE Spec2Model ----
(***************************************************************************)
(* Model of backend/main.py of ApexView: the tiered-fallback resolvers for *)
(* the next race, the championship standings and the fastest lap.          *)
(*                                                                         *)
(* Time is counted in minutes since 1 January 00:00 UTC of the current     *)
(* season.  A JSON document is a record whose DOMAIN is the set of keys it *)
(* carries; a key that is absent is absent from the DOMAIN.                *)
(***************************************************************************)
EXTENDS Integers, Sequences, FiniteSets, TLC

VARIABLES clock,      \* the wall clock, datetime.now(timezone.utc)
          nr_pc,      \* fetch_next_race: position in the function
          nr_now,     \* fetch_next_race: the local `now` (line 333)
          nr_calls,   \* fetch_next_race: gateway calls made so far, with their responses
          nr_tcalc,   \* fetch_next_race: the clock as calculate_time_left read it
          nr_result,  \* fetch_next_race: the returned NextRace
          st_who,     \* standings: which function was called
          st_pc,      \* standings: position in the function
          st_calls,   \* standings: gateway calls made so far, with their responses
          st_sessions,\* standings: the local `sessions`
          st_idx,     \* standings: index of the session the loop is at
          st_acc,     \* standings: driver_points and team_points
          st_result,  \* standings: the returned value
          fl_who,     \* fastest lap: which function was called
          fl_pc,      \* fastest lap: position in the function
          fl_calls,   \* fastest lap: gateway calls made so far, with their responses
          fl_session, \* fastest lap: the local `latest_session`
          fl_result,  \* fastest lap: the returned value
          db_pc,      \* get_dashboard_data: position in the handler
          db_task,    \* get_dashboard_data: the four tasks of asyncio.gather
          db_result,  \* get_dashboard_data: what each task returned
          db_exc,     \* get_dashboard_data: the exception gather propagates
          db_out,     \* get_dashboard_data: the response of the request
          tl_pc,      \* calculate_time_left: position in the function
          tl_target,  \* calculate_time_left: the argument race_datetime
          tl_result   \* calculate_time_left: the returned text

nr_vars == <<nr_pc, nr_now, nr_calls, nr_tcalc, nr_result>>
st_vars == <<st_who, st_pc, st_calls, st_sessions, st_idx, st_acc, st_result>>
fl_vars == <<fl_who, fl_pc, fl_calls, fl_session, fl_result>>
db_vars == <<db_pc, db_task, db_result, db_exc, db_out>>
tl_vars == <<tl_pc, tl_target, tl_result>>
vars == <<clock, nr_vars, st_vars, fl_vars, db_vars, tl_vars>>

(***************************************************************************)
(* Bounds of the model.                                                    *)
(***************************************************************************)
MaxRaces == 2      \* longest race / meeting list a provider response carries
MaxElapsed == 2    \* longest time (minutes) that passes while one request is served

(***************************************************************************)
(* JSON values.                                                            *)
(***************************************************************************)
\* A JSON value that is not a string (null, a number, an object): the pydantic
\* models reject it for a `str` field.
Null == "<null>"

\* dict.get(key, default)
Get(e, k, d) == IF k \in DOMAIN e THEN e[k] ELSE d

\* a list entry that is a JSON object (has .get); anything else raises AttributeError
IsObj(e) == "nonobj" \notin DOMAIN e
NonObj == [nonobj |-> TRUE]

\* pydantic validation of a `str` field
IsStr(v) == v # Null

(***************************************************************************)
(* Date strings.  kind is what the string looks like:                      *)
(*   "ts"     ISO timestamp with 'Z' or a UTC offset                       *)
(*   "naive"  ISO timestamp with a 'T' but no offset                       *)
(*   "date"   date only (YYYY-MM-DD)                                       *)
(*   "bad"    a non-empty string datetime.fromisoformat rejects            *)
(*   "empty"  the empty string                                             *)
(*   "nonstr" a value that is not a string                                 *)
(* t is the wall-clock time written in the string, off its UTC offset.     *)
(***************************************************************************)
Day == 1440
Hour == 60

DateStr(kind, t, off) == [kind |-> kind, t |-> t, off |-> off]
EmptyDate == DateStr("empty", 0, 0)

\* the instant an aware datetime denotes
Instant(d) == d.t - d.off

\* race_dt.strftime('%Y-%m-%d %H:%M UTC'): the wall-clock fields of the datetime in
\* its own offset, followed by the literal "UTC"
Strftime(d) ==
  [fmt |-> "ymdhm", day |-> d.t \div Day, hh |-> (d.t % Day) \div Hour, mm |-> d.t % Hour]

\* race_date.replace('T', ' ').replace('Z', ' UTC')
RawDate(d) == [fmt |-> "raw", d |-> d]

(***************************************************************************)
(* calculate_time_left.  The parse yields an aware datetime or raises.     *)
(***************************************************************************)
TimeLeftParse(d) ==
  CASE d.kind = "ts"    -> [ok |-> TRUE, dt |-> d]
    [] d.kind = "naive" -> [ok |-> TRUE, dt |-> DateStr("ts", d.t, 0)]
    [] d.kind = "date"  -> [ok |-> TRUE, dt |-> DateStr("ts", d.t, 0)]
    [] OTHER            -> [ok |-> FALSE, dt |-> d]

Countdown(fmt, a, b) == [fmt |-> fmt, a |-> a, b |-> b]

\* RenderTimeLeft with the hours taken from the whole interval
\* (total_seconds() // 3600) and not from the part within the last day
RenderTimeLeft_TotalHours(delta) ==
  LET days    == delta \div Day
      hours   == delta \div Hour
      minutes == delta % Hour
  IN  IF delta < 0 THEN Countdown("Race completed", 0, 0)
      ELSE IF days > 0 THEN Countdown("days, hours", days, hours)
      ELSE IF hours > 0 THEN Countdown("hours, minutes", hours, minutes)
      ELSE Countdown("minutes", minutes, 0)

RenderTimeLeft(delta) ==
  LET days    == delta \div Day
      hours   == (delta % Day) \div Hour
      minutes == delta % Hour
  IN  IF delta < 0 THEN Countdown("Race completed", 0, 0)
      ELSE IF days > 0 THEN Countdown("days, hours", days, hours)
      ELSE IF hours > 0 THEN Countdown("hours, minutes", hours, minutes)
      ELSE Countdown("minutes", minutes, 0)

calculate_time_left(d, clk) ==
  LET p == TimeLeftParse(d)
  IN  IF p.ok THEN RenderTimeLeft(Instant(p.dt) - clk)
      ELSE Countdown("Unknown", 0, 0)

(***************************************************************************)
(* The NextRace record.                                                    *)
(***************************************************************************)
NextRace(race_name, location, country, date, time_left) ==
  [race_name |-> race_name, location |-> location, country |-> country,
   date |-> date, time_left |-> time_left]

\* pydantic validation of NextRace(...): every field must be a str
NextRaceValid(r) == IsStr(r.race_name) /\ IsStr(r.location) /\ IsStr(r.country)

SeasonBreak ==
  NextRace("Season Break", "Checking for upcoming races...", "Unknown",
           [fmt |-> "TBD"], Countdown("Season break", 0, 0))

NoResult == [none |-> TRUE]

\* what a tier of a resolver does: return a value, fall through to the next
\* tier, or raise out of the function
Return(v) == [kind |-> "return", value |-> v]
Fall == [kind |-> "fall", value |-> NoResult]
Raise == [kind |-> "raise", value |-> NoResult]

(***************************************************************************)
(* Provider responses.  kind is the shape of the parsed body:              *)
(*   "absent"  the gateway returned None (timeout, transport error, non-200)*)
(*   "empty"   a falsy body: {} or []                                      *)
(*   "scalar"  a truthy body that is no container (a number, true): the    *)
(*             `in` operator raises TypeError on it                        *)
(*   "nokey"   a truthy object without the key the resolver looks for      *)
(*   "badlist" an object whose list key holds something that is no list    *)
(*   "list"    an object (primary) or array (secondary) carrying items     *)
(***************************************************************************)
Response(kind, items) == [kind |-> kind, items |-> items]
Absent == Response("absent", <<>>)

\* all sequences over S of length at most n
SeqsUpTo(S, n) == UNION {[1..k -> S] : k \in 0..n}

T0 == 300 * Day     \* the clock when a request starts

RSoon == [date |-> DateStr("ts", T0 + 1, 0), race_name |-> "Soon GP",
          location |-> "Soon City", country |-> "Soonland"]
RNullCountry == [date |-> DateStr("ts", T0 + 2, 0), race_name |-> "Open GP",
                 location |-> "Open City", country |-> Null]
RNaive == [date |-> DateStr("naive", T0 + 3 * Day, 0), race_name |-> "Naive GP",
           location |-> "Naive City", country |-> "Naiveland"]

\* the entries a season's race list is drawn from: besides the two above, a race
\* given by its date only, one that started two hours ago in its own time zone, one
\* whose date cannot be parsed, and an entry that is no object
RaceEntries ==
  {RSoon, RNullCountry, NonObj,
   [date |-> DateStr("date", 302 * Day, 0), name |-> "Later GP", circuit |-> "Later Ring"],
   [date |-> DateStr("ts", T0 + 120, 120), race_name |-> "Now GP",
    location |-> "Now City", country |-> "Nowland"],
   [date |-> DateStr("bad", 0, 0), race_name |-> "Garbled GP",
    location |-> "Garbled City", country |-> "Garbland"]}

PrimaryShapes ==
  {Absent, Response("empty", <<>>), Response("scalar", <<>>), Response("nokey", <<>>),
   Response("badlist", <<>>)}

PrimaryRaceResponses ==
  PrimaryShapes \cup {Response("list", l) : l \in SeqsUpTo(RaceEntries, MaxRaces)}

\* the entries the next season's first race is drawn from (only races[0] is read),
\* and one list of two races, the first with a date that cannot be parsed
NextSeasonResponses ==
  LET OpenerEntries ==
        RaceEntries
        \cup {RNaive,
              [race_name |-> "Undated GP"],
              [date |-> DateStr("nonstr", 0, 0), race_name |-> "Numbered GP"]}
  IN  PrimaryShapes \cup {Response("list", <<>>)}
      \cup {Response("list", <<e>>) : e \in OpenerEntries}
      \cup {Response("list", <<[date |-> DateStr("bad", 0, 0), race_name |-> "Garbled GP",
                                location |-> "Garbled City", country |-> "Garbland"],
                               RSoon>>)}

MLater == [date_start |-> DateStr("ts", T0 + Day + 61, 60), meeting_name |-> "Later Meeting",
           location |-> "Later City"]

\* the meetings a season's list is drawn from: one a minute ahead, MLater, one a
\* minute ago, one given by its date only, one whose name is null
MeetingResponses ==
  LET MeetingEntries ==
        {MLater,
         [date_start |-> DateStr("ts", T0 + 1, 0), meeting_name |-> "Soon Meeting",
          location |-> "Soon City", country_name |-> "Soonland"],
         [date_start |-> DateStr("ts", T0 - 1, 0), meeting_name |-> "Past Meeting",
          location |-> "Past City", country_name |-> "Pastland"],
         [date_start |-> DateStr("date", 305 * Day, 0), meeting_name |-> "Dated Meeting",
          location |-> "Dated City", country_name |-> "Datedland"],
         [date_start |-> DateStr("ts", T0 + 2, 0), meeting_name |-> Null,
          location |-> "Open City", country_name |-> "Openland"]}
  IN  {Absent, Response("scalar", <<>>)}
      \cup {Response("list", l) : l \in SeqsUpTo(MeetingEntries, MaxRaces)}

(***************************************************************************)
(* fetch_next_race, tier by tier.  Each tier operator is the code of the   *)
(* tier after its gateway call returned resp; now is the function's local  *)
(* `now`, clk the clock calculate_time_left reads.                         *)
(***************************************************************************)
\* index of the first element of s with the least key: list.sort(key=...)[0]
\* (the sort is stable)
FirstMin(s, key(_)) ==
  CHOOSE i \in 1..Len(s) :
    \A j \in 1..Len(s) : key(s[i]) < key(s[j]) \/ (key(s[i]) = key(s[j]) /\ i <= j)

\* lines 345-358: the race date parsed to an aware datetime, or a raise caught
\* per candidate
Tier1Parse(d) ==
  CASE d.kind = "ts"   -> [ok |-> TRUE, dt |-> d]
    [] d.kind = "date" -> [ok |-> TRUE, dt |-> DateStr("ts", d.t + 15 * Hour, 0)]
    [] OTHER           -> [ok |-> FALSE, dt |-> d]

Tier1Dt(race) == Tier1Parse(Get(race, "date", EmptyDate)).dt

IsUpcoming1(race, now) ==
  LET p == Tier1Parse(Get(race, "date", EmptyDate))
  IN  p.ok /\ Instant(p.dt) > now

Tier1Record(race, clk) ==
  NextRace(Get(race, "race_name", Get(race, "name", "Unknown")),
           Get(race, "location", Get(race, "circuit", "Unknown")),
           Get(race, "country", "Unknown"),
           Strftime(Tier1Dt(race)),
           calculate_time_left(Tier1Dt(race), clk))

\* Tier1 returning the first listed upcoming race instead of the earliest
Tier1_FirstListed(resp, now, clk) ==
  CASE resp.kind \in {"absent", "empty", "nokey"} -> Fall
    [] resp.kind = "scalar" -> Raise
    [] resp.kind = "badlist" -> Fall
    [] OTHER ->
       LET races == resp.items
           upcoming == SelectSeq(races, LAMBDA r : IsUpcoming1(r, now))
       IN  IF \E i \in 1..Len(races) : ~IsObj(races[i]) THEN Fall
           ELSE IF upcoming = <<>> THEN Fall
           ELSE LET rec == Tier1Record(upcoming[1], clk)
                IN  IF NextRaceValid(rec) THEN Return(rec) ELSE Fall

\* Tier1 giving up the whole tier when one candidate's date fails to parse
Tier1_ParseFatal(resp, now, clk) ==
  CASE resp.kind \in {"absent", "empty", "nokey"} -> Fall
    [] resp.kind = "scalar" -> Raise
    [] resp.kind = "badlist" -> Fall
    [] OTHER ->
       LET races == resp.items
           upcoming == SelectSeq(races, LAMBDA r : IsUpcoming1(r, now))
       IN  IF \E i \in 1..Len(races) : ~IsObj(races[i]) THEN Fall
           ELSE IF \E i \in 1..Len(races) : ~Tier1Parse(Get(races[i], "date", EmptyDate)).ok
           THEN Fall
           ELSE IF upcoming = <<>> THEN Fall
           ELSE LET rec == Tier1Record(upcoming[FirstMin(upcoming, LAMBDA r : Instant(Tier1Dt(r)))], clk)
                IN  IF NextRaceValid(rec) THEN Return(rec) ELSE Fall

Tier1(resp, now, clk) ==
  CASE resp.kind \in {"absent", "empty", "nokey"} -> Fall
    [] resp.kind = "scalar" -> Raise
    [] resp.kind = "badlist" -> Fall
    [] OTHER ->
       LET races == resp.items
           upcoming == SelectSeq(races, LAMBDA r : IsUpcoming1(r, now))
       IN  IF \E i \in 1..Len(races) : ~IsObj(races[i]) THEN Fall
           ELSE IF upcoming = <<>> THEN Fall
           ELSE LET rec == Tier1Record(upcoming[FirstMin(upcoming, LAMBDA r : Instant(Tier1Dt(r)))], clk)
                IN  IF NextRaceValid(rec) THEN Return(rec) ELSE Fall

\* lines 382-390
Tier2Parse(d) == [ok |-> d.kind = "ts", dt |-> d]

Tier2Dt(meeting) == Get(meeting, "date_start", EmptyDate)

IsUpcoming2(meeting, now) ==
  Tier2Parse(Tier2Dt(meeting)).ok /\ Instant(Tier2Dt(meeting)) > now

\* Tier2Record reading the tier-1 key "country" instead of "country_name"
Tier2Record_CountryKey(meeting, clk) ==
  NextRace(Get(meeting, "meeting_name", "Unknown"),
           Get(meeting, "location", "Unknown"),
           Get(meeting, "country", "Unknown"),
           Strftime(Tier2Dt(meeting)),
           calculate_time_left(Tier2Dt(meeting), clk))

Tier2Record(meeting, clk) ==
  NextRace(Get(meeting, "meeting_name", "Unknown"),
           Get(meeting, "location", "Unknown"),
           Get(meeting, "country_name", "Unknown"),
           Strftime(Tier2Dt(meeting)),
           calculate_time_left(Tier2Dt(meeting), clk))

Tier2(resp, now, clk) ==
  CASE resp.kind = "absent" -> Fall
    [] resp.kind = "scalar" -> Fall
    [] OTHER ->
       LET meetings == resp.items
           upcoming == SelectSeq(meetings, LAMBDA m : IsUpcoming2(m, now))
       IN  IF \E i \in 1..Len(meetings) : ~IsObj(meetings[i]) THEN Fall
           ELSE IF upcoming = <<>> THEN Fall
           ELSE LET rec == Tier2Record(upcoming[FirstMin(upcoming, LAMBDA m : Instant(Tier2Dt(m)))], clk)
                IN  IF NextRaceValid(rec) THEN Return(rec) ELSE Fall

\* f"{next_year}-03-01T15:00:00Z": 1 March of the next (non-leap) year, 15:00 UTC
OpenerDate == DateStr("ts", (365 + 59) * Day + 15 * Hour, 0)

Tier3Record(race, clk) ==
  LET race_date == Get(race, "date", OpenerDate)
  IN  NextRace(Get(race, "race_name", "<next_year> Season Opener"),
               Get(race, "location", "TBD"),
               Get(race, "country", "TBD"),
               RawDate(race_date),
               calculate_time_left(race_date, clk))

Tier3(resp, clk) ==
  CASE resp.kind \in {"absent", "empty", "nokey"} -> Fall
    [] resp.kind \in {"scalar", "badlist"} -> Fall
    [] OTHER ->
       LET races == resp.items
       IN  IF races = <<>> THEN Fall
           ELSE IF ~IsObj(races[1]) THEN Fall
           ELSE IF Get(races[1], "date", OpenerDate).kind = "nonstr" THEN Fall
           ELSE LET rec == Tier3Record(races[1], clk)
                IN  IF NextRaceValid(rec) THEN Return(rec) ELSE Fall

(***************************************************************************)
(* fetch_next_race as a process: one action per gateway call.              *)
(***************************************************************************)
Call(ep, resp) == [ep |-> ep, resp |-> resp]

EpSeason == "f1api.dev/{current_year}"
EpMeetings == "openf1/meetings?year={current_year}"
EpNextSeason == "f1api.dev/{next_year}"

\* the time a gateway call may take: the request is served within MaxElapsed
Delays == {d \in 0..MaxElapsed : clock + d <= T0 + MaxElapsed}

NRSettle(outcome, next) ==
  /\ nr_pc' = CASE outcome.kind = "return" -> "done"
                [] outcome.kind = "raise" -> "raised"
                [] OTHER -> next
  /\ nr_result' = outcome.value
  /\ nr_tcalc' = IF outcome.kind = "return" THEN clock' ELSE nr_tcalc

\* lines 332-333
NR_Start ==
  /\ nr_pc = "start"
  /\ nr_now' = clock
  /\ nr_pc' = "tier1"
  /\ UNCHANGED <<clock, nr_calls, nr_tcalc, nr_result, st_vars, fl_vars, db_vars, tl_vars>>

\* lines 336-373
NR_Tier1 ==
  /\ nr_pc = "tier1"
  /\ \E resp \in PrimaryRaceResponses, d \in Delays :
       /\ clock' = clock + d
       /\ nr_calls' = Append(nr_calls, Call(EpSeason, resp))
       /\ NRSettle(Tier1(resp, nr_now, clock'), "tier2")
  /\ UNCHANGED <<nr_now, st_vars, fl_vars, db_vars, tl_vars>>

\* lines 376-405
NR_Tier2 ==
  /\ nr_pc = "tier2"
  /\ \E resp \in MeetingResponses, d \in Delays :
       /\ clock' = clock + d
       /\ nr_calls' = Append(nr_calls, Call(EpMeetings, resp))
       /\ NRSettle(Tier2(resp, nr_now, clock'), "tier3")
  /\ UNCHANGED <<nr_now, st_vars, fl_vars, db_vars, tl_vars>>

\* lines 408-424
NR_Tier3 ==
  /\ nr_pc = "tier3"
  /\ \E resp \in NextSeasonResponses, d \in Delays :
       /\ clock' = clock + d
       /\ nr_calls' = Append(nr_calls, Call(EpNextSeason, resp))
       /\ NRSettle(Tier3(resp, clock'), "tier4")
  /\ UNCHANGED <<nr_now, st_vars, fl_vars, db_vars, tl_vars>>

\* lines 427-433
NR_Tier4 ==
  /\ nr_pc = "tier4"
  /\ nr_pc' = "done"
  /\ nr_result' = SeasonBreak
  /\ UNCHANGED <<clock, nr_now, nr_calls, nr_tcalc, st_vars, fl_vars, db_vars, tl_vars>>

\* the variables of a function that is not running
IdleNextRace ==
  /\ nr_pc = "idle"
  /\ nr_now = 0
  /\ nr_calls = <<>>
  /\ nr_tcalc = 0
  /\ nr_result = NoResult

IdleStandings ==
  /\ st_who = "none"
  /\ st_pc = "idle"
  /\ st_calls = <<>>
  /\ st_sessions = <<>>
  /\ st_idx = 0
  /\ st_acc = [drivers |-> <<>>, teams |-> <<>>]
  /\ st_result = NoResult

IdleFastestLap ==
  /\ fl_who = "none"
  /\ fl_pc = "idle"
  /\ fl_calls = <<>>
  /\ fl_session = NoResult
  /\ fl_result = NoResult

\* the tasks of asyncio.gather, in the order of its arguments (lines 600-602)
Branches == <<"drivers", "teams", "race", "lap">>
BranchSet == {Branches[i] : i \in 1..Len(Branches)}

\* a task: its position and the locals that live across its awaits
Task(pc, now, sessions, idx, acc) ==
  [pc |-> pc, now |-> now, sessions |-> sessions, idx |-> idx, acc |-> acc]
NoTask(pc) == Task(pc, 0, <<>>, 0, [drivers |-> <<>>, teams |-> <<>>])

IdleDashboard ==
  /\ db_pc = "idle"
  /\ db_task = [b \in BranchSet |-> NoTask("idle")]
  /\ db_result = [b \in BranchSet |-> NoResult]
  /\ db_exc = NoResult
  /\ db_out = NoResult

IdleTimeLeft ==
  /\ tl_pc = "idle"
  /\ tl_target = EmptyDate
  /\ tl_result = Countdown("Unknown", 0, 0)

InitNextRace ==
  /\ clock = T0
  /\ IdleDashboard
  /\ IdleTimeLeft
  /\ nr_pc = "start"
  /\ nr_now = 0
  /\ nr_calls = <<>>
  /\ nr_tcalc = 0
  /\ nr_result = NoResult
  /\ IdleStandings
  /\ IdleFastestLap

NextNextRace == NR_Start \/ NR_Tier1 \/ NR_Tier2 \/ NR_Tier3 \/ NR_Tier4

SpecNextRace == InitNextRace /\ [][NextNextRace]_vars

(***************************************************************************)
(* Standings: the reference tables.                                        *)
(***************************************************************************)
POINTS_SYSTEM ==
  (1 :> 25) @@ (2 :> 18) @@ (3 :> 15) @@ (4 :> 12) @@ (5 :> 10) @@
  (6 :> 8) @@ (7 :> 6) @@ (8 :> 4) @@ (9 :> 2) @@ (10 :> 1)

Info(name, abbr, team) == [name |-> name, abbr |-> abbr, team |-> team]

DRIVER_INFO ==
  (1 :> Info("Max Verstappen", "VER", "Red Bull Racing")) @@
  (22 :> Info("Yuki Tsunoda", "TSU", "Red Bull Racing")) @@
  (16 :> Info("Charles Leclerc", "LEC", "Ferrari")) @@
  (44 :> Info("Lewis Hamilton", "HAM", "Ferrari")) @@
  (63 :> Info("George Russell", "RUS", "Mercedes")) @@
  (12 :> Info("Kimi Antonelli", "ANT", "Mercedes")) @@
  (4 :> Info("Lando Norris", "NOR", "McLaren")) @@
  (81 :> Info("Oscar Piastri", "PIA", "McLaren")) @@
  (14 :> Info("Fernando Alonso", "ALO", "Aston Martin")) @@
  (18 :> Info("Lance Stroll", "STR", "Aston Martin")) @@
  (10 :> Info("Pierre Gasly", "GAS", "Alpine")) @@
  (43 :> Info("Franco Colapinto", "COL", "Alpine")) @@
  (31 :> Info("Esteban Ocon", "OCO", "Haas")) @@
  (87 :> Info("Oliver Bearman", "BEA", "Haas")) @@
  (27 :> Info("Niko Hulkenberg", "HUL", "Kick Sauber")) @@
  (5 :> Info("Gabriel Bortoleto", "BOR", "Kick Sauber")) @@
  (23 :> Info("Alexander Albon", "ALB", "Williams")) @@
  (2 :> Info("Logan Sargeant", "SAR", "Williams")) @@
  (55 :> Info("Carlos Sainz", "SAI", "Williams")) @@
  (30 :> Info("Liam Lawson", "LAW", "Racing Bulls")) @@
  (6 :> Info("Isack Hadjar", "HAD", "Racing Bulls"))

\* DRIVER_INFO.get(driver_number, {...}): unknown numbers get a placeholder identity
DriverInfo(n) ==
  IF n \in DOMAIN DRIVER_INFO THEN DRIVER_INFO[n]
  ELSE Info("Driver " \o ToString(n), "D" \o ToString(n), "Unknown")

\* POINTS_SYSTEM.get(position, 0)
PointsFor(position) ==
  IF position \in DOMAIN POINTS_SYSTEM THEN POINTS_SYSTEM[position] ELSE 0

TopN == 10

Driver(position, info, points) ==
  [position |-> position, driver_name |-> info.name, abbreviation |-> info.abbr,
   team |-> info.team, points |-> points]

Team(position, team_name, points) ==
  [position |-> position, team_name |-> team_name, points |-> points]

Standings(drivers, teams) == [drivers |-> drivers, teams |-> teams]

get_fallback_standings ==
  Standings(
    <<Driver(1, Info("Max Verstappen", "VER", "Red Bull Racing"), 393),
      Driver(2, Info("Lando Norris", "NOR", "McLaren"), 331),
      Driver(3, Info("Charles Leclerc", "LEC", "Ferrari"), 307)>>,
    <<Team(1, "Red Bull Racing", 860), Team(2, "McLaren", 608), Team(3, "Ferrari", 584)>>)

(***************************************************************************)
(* calculate_standings_from_results: the computation on one session's      *)
(* position records and the final ranking.                                 *)
(***************************************************************************)
\* index of the entry of the insertion-ordered dict d whose key is k, 0 if none
IndexOf(d, k) ==
  IF \E i \in 1..Len(d) : d[i].key = k
  THEN CHOOSE i \in 1..Len(d) : d[i].key = k
  ELSE 0

\* lines 196-200: the last position update of each driver.  A record with no
\* driver_number, or a comparison that reads a missing date, raises KeyError.
RECURSIVE FinalFold(_, _)
FinalFold(positions, finals) ==
  IF positions = <<>> THEN [fault |-> FALSE, finals |-> finals]
  ELSE LET pos == Head(positions)
       IN  IF ~IsObj(pos) \/ "driver_number" \notin DOMAIN pos
           THEN [fault |-> TRUE, finals |-> finals]
           ELSE LET i == IndexOf(finals, pos.driver_number)
                IN  IF i = 0
                    THEN FinalFold(Tail(positions),
                                   Append(finals, [key |-> pos.driver_number, pos |-> pos]))
                    ELSE IF "date" \notin DOMAIN pos \/ "date" \notin DOMAIN finals[i].pos
                    THEN [fault |-> TRUE, finals |-> finals]
                    ELSE IF pos.date > finals[i].pos.date
                    THEN FinalFold(Tail(positions), [finals EXCEPT ![i].pos = pos])
                    ELSE FinalFold(Tail(positions), finals)

\* FinalPositions keeping each driver's last listed record, whatever its date
FinalPositions_LastListed(positions) ==
  LET ff == FinalFold(positions, <<>>)
      last(k) == CHOOSE i \in 1..Len(positions) :
                   /\ positions[i].driver_number = k
                   /\ \A j \in (i + 1)..Len(positions) : positions[j].driver_number # k
  IN  IF ff.fault THEN ff
      ELSE [fault |-> FALSE,
            finals |-> [n \in 1..Len(ff.finals) |->
                          [key |-> ff.finals[n].key, pos |-> positions[last(ff.finals[n].key)]]]]

FinalPositions(positions) == FinalFold(positions, <<>>)

\* lines 214-220 and 223-226: dict[key] += points, inserting the key at 0 first
AddPoints(d, k, info, points) ==
  LET i == IndexOf(d, k)
  IN  IF i = 0 THEN Append(d, [key |-> k, info |-> info, points |-> points])
      ELSE [d EXCEPT ![i].points = @ + points]

\* AwardOne crediting a team only for the first of its drivers
AwardOne_FirstDriverOfTeam(acc, f) ==
  LET info == DriverInfo(f.key)
      points == PointsFor(f.pos.position)
  IN  [drivers |-> AddPoints(acc.drivers, <<f.key, info.name>>, info, points),
       teams |-> IF IndexOf(acc.teams, info.team) = 0
                 THEN AddPoints(acc.teams, info.team, info, points)
                 ELSE acc.teams]

\* lines 203-226 for one final record
AwardOne(acc, f) ==
  LET info == DriverInfo(f.key)
      points == PointsFor(f.pos.position)
  IN  [drivers |-> AddPoints(acc.drivers, <<f.key, info.name>>, info, points),
       teams |-> AddPoints(acc.teams, info.team, info, points)]

\* lines 203-226: the award loop; pos_data['position'] raises KeyError on a
\* record without the key, after the records before it were awarded
RECURSIVE AwardAll(_, _)
AwardAll(acc, finals) ==
  IF finals = <<>> THEN [fault |-> FALSE, acc |-> acc]
  ELSE IF "position" \notin DOMAIN Head(finals).pos THEN [fault |-> TRUE, acc |-> acc]
  ELSE AwardAll(AwardOne(acc, Head(finals)), Tail(finals))

\* lines 192-226 for one session: the accumulators after it, and whether it raised
ProcessSession(acc, resp) ==
  IF resp.kind = "absent" \/ resp.items = <<>> THEN [fault |-> FALSE, acc |-> acc]
  ELSE LET fp == FinalPositions(resp.items)
       IN  IF fp.fault THEN [fault |-> TRUE, acc |-> acc]
           ELSE AwardAll(acc, fp.finals)

\* sorted(..., key=points, reverse=True): a stable sort, descending by points
SortDesc(d) ==
  LET rank(i) == Cardinality({j \in 1..Len(d) :
                    d[j].points > d[i].points \/ (d[j].points = d[i].points /\ j <= i)})
  IN  [k \in 1..Len(d) |-> d[CHOOSE i \in 1..Len(d) : rank(i) = k]]

\* s[:n]
Take(s, n) == SubSeq(s, 1, IF Len(s) < n THEN Len(s) ELSE n)

\* lines 229-252
RankStandings(acc) ==
  LET sorted_drivers == Take(SortDesc(acc.drivers), TopN)
      sorted_teams == Take(SortDesc(acc.teams), TopN)
  IN  Standings(
        [i \in 1..Len(sorted_drivers) |->
           Driver(i, sorted_drivers[i].info, sorted_drivers[i].points)],
        [i \in 1..Len(sorted_teams) |->
           Team(i, sorted_teams[i].key, sorted_teams[i].points)])

(***************************************************************************)
(* Standings: provider data.                                               *)
(***************************************************************************)
MaxRows == 2        \* longest standings list drawn entry by entry
MaxSessions == 2    \* longest session list a provider response carries

\* one car of each team and an unknown car, in finishing order: eleven drivers
\* of eleven teams
Grid == <<1, 16, 63, 4, 14, 10, 31, 27, 23, 30, 99>>

\* rows of the primary provider's driver standings; points -1 stands for a value
\* float() rejects
DriverRowA == [driver_name |-> "Max Verstappen", abbreviation |-> "VER",
               team |-> "Red Bull Racing", points |-> 20]
DriverRowB == [name |-> "Lando Norris", code |-> "NOR", constructor |-> "McLaren",
               points |-> 30]

TeamRowA == [team_name |-> "Red Bull Racing", points |-> 20]
TeamRowB == [name |-> "McLaren", points |-> 30]

\* the summaries of the primary provider: the shapes without rows, every list of
\* up to MaxRows rows, and one list of eleven rows
StandingsResponses(who) ==
  PrimaryShapes
  \cup {Response("list", l) :
          l \in SeqsUpTo(IF who = "drivers"
                         THEN {DriverRowA, DriverRowB, [driver_name |-> Null, points |-> 5]}
                         ELSE {TeamRowA, TeamRowB, [team_name |-> "Ferrari", points |-> -1]},
                         MaxRows)}
  \cup {Response("list",
          IF who = "drivers"
          THEN [i \in 1..Len(Grid) |->
                  [driver_name |-> DriverInfo(Grid[i]).name,
                   abbreviation |-> DriverInfo(Grid[i]).abbr,
                   team |-> DriverInfo(Grid[i]).team, points |-> 12 - i]]
          ELSE [i \in 1..Len(Grid) |->
                  [team_name |-> DriverInfo(Grid[i]).team, points |-> 12 - i]])}

Session1 == [session_key |-> 9001]

SessionResponses ==
  {Absent, Response("scalar", <<>>)}
  \cup {Response("list", l) :
          l \in SeqsUpTo({Session1, [session_key |-> 9002], [meeting_name |-> "Keyless GP"]},
                         MaxSessions)}

Position(driver_number, date, position) ==
  [driver_number |-> driver_number, date |-> date, position |-> position]

FullGrid == [i \in 1..Len(Grid) |-> Position(Grid[i], 1, i)]

\* position 0 stands for a JSON null
PositionResponses ==
  LET PositionLists ==
        LET PosA == Position(1, 1, 1)
            PosB == Position(1, 2, 11)
            PosC == Position(22, 1, 2)
            PosD == Position(16, 2, 1)
            PosE == Position(99, 1, 0)
            PosF == [driver_number |-> 16, date |-> 1]
            PosG == Position(1, 1, 3)
        IN {<<>>, <<PosA>>, <<PosA, PosB>>, <<PosB, PosA>>, <<PosA, PosC>>, <<PosC, PosD>>,
            <<PosE>>, <<PosA, PosF>>, <<PosF, PosD>>, <<PosA, PosG>>, <<PosG, PosA>>, FullGrid}
  IN  {Absent} \cup {Response("list", l) : l \in PositionLists}

(***************************************************************************)
(* fetch_driver_standings and fetch_constructor_standings: the primary     *)
(* summary.                                                                *)
(***************************************************************************)
\* float(x)
IsNumber(v) == v # -1

DriverRow(i, row) ==
  [position |-> i,
   driver_name |-> Get(row, "driver_name", Get(row, "name", "Unknown")),
   abbreviation |-> Get(row, "abbreviation", Get(row, "code", "UNK")),
   team |-> Get(row, "team", Get(row, "constructor", "Unknown")),
   points |-> Get(row, "points", 0)]

DriverRowValid(r) ==
  IsStr(r.driver_name) /\ IsStr(r.abbreviation) /\ IsStr(r.team) /\ IsNumber(r.points)

TeamRow(i, row) ==
  [position |-> i,
   team_name |-> Get(row, "team_name", Get(row, "name", "Unknown")),
   points |-> Get(row, "points", 0)]

TeamRowValid(r) == IsStr(r.team_name) /\ IsNumber(r.points)

\* lines 280-296 and 309-323
PrimaryStandings(who, resp) ==
  CASE resp.kind \in {"absent", "empty", "nokey"} -> Fall
    [] resp.kind = "scalar" -> Raise
    [] resp.kind = "badlist" -> Fall
    [] OTHER ->
       LET rows == Take(resp.items, TopN)
           top == [i \in 1..Len(rows) |->
                     IF who = "drivers" THEN DriverRow(i, rows[i]) ELSE TeamRow(i, rows[i])]
       IN  IF \E i \in 1..Len(rows) : ~IsObj(rows[i]) THEN Fall
           ELSE IF \E i \in 1..Len(top) :
                     IF who = "drivers" THEN ~DriverRowValid(top[i]) ELSE ~TeamRowValid(top[i])
           THEN Fall
           ELSE Return(top)

(***************************************************************************)
(* The standings functions as a process: one action per gateway call.      *)
(***************************************************************************)
KeyedCall(ep, key, resp) == [ep |-> ep, key |-> key, resp |-> resp]

EpDriverStandings == "f1api.dev/{current_year}/standings/drivers"
EpTeamStandings == "f1api.dev/{current_year}/standings/teams"
EpSessions == "openf1/sessions?session_type=Race&year={current_year}"
EpSessionsPrev == "openf1/sessions?session_type=Race&year={current_year-1}"
EpPosition == "openf1/position?session_key={session_key}"

\* what the caller of calculate_standings_from_results keeps of the pair
Project(who, pair) ==
  CASE who = "drivers" -> pair.drivers
    [] who = "teams" -> pair.teams
    [] OTHER -> pair

\* lines 278-296, 307-323
ST_Primary ==
  /\ st_pc = "primary"
  /\ \E resp \in StandingsResponses(st_who) :
       LET outcome == PrimaryStandings(st_who, resp)
       IN  /\ st_calls' = Append(st_calls,
                 KeyedCall(IF st_who = "drivers" THEN EpDriverStandings ELSE EpTeamStandings,
                           0, resp))
           /\ st_pc' = CASE outcome.kind = "return" -> "done"
                         [] outcome.kind = "raise" -> "raised"
                         [] OTHER -> "sessions"
           /\ st_result' = outcome.value
  /\ UNCHANGED <<st_who, st_sessions, st_idx, st_acc, clock, nr_vars, fl_vars, db_vars, tl_vars>>

\* a session request: the local `sessions` after it, and whether the loop over
\* it can start
SessionsStep(ep, next) ==
  \E resp \in SessionResponses :
    /\ st_calls' = Append(st_calls, KeyedCall(ep, 0, resp))
    /\ IF resp.kind = "absent" \/ (resp.kind = "list" /\ resp.items = <<>>)
       THEN IF next = "done"
            THEN /\ st_pc' = "done"
                 /\ st_result' = Project(st_who, get_fallback_standings)
                 /\ UNCHANGED <<st_sessions, st_idx>>
            ELSE /\ st_pc' = next
                 /\ UNCHANGED <<st_sessions, st_idx, st_result>>
       ELSE IF resp.kind = "scalar"
       THEN /\ st_pc' = "done"
            /\ st_result' = Project(st_who, get_fallback_standings)
            /\ UNCHANGED <<st_sessions, st_idx>>
       ELSE /\ st_pc' = "loop"
            /\ st_sessions' = resp.items
            /\ st_idx' = 1
            /\ UNCHANGED st_result

\* lines 170-175
ST_Sessions ==
  /\ st_pc = "sessions"
  /\ SessionsStep(EpSessions, "sessions_prev")
  /\ UNCHANGED <<st_who, st_acc, clock, nr_vars, fl_vars, db_vars, tl_vars>>

\* ST_SessionsPrev asking for the current year a second time
ST_SessionsPrev_SameYear ==
  /\ st_pc = "sessions_prev"
  /\ SessionsStep(EpSessions, "done")
  /\ UNCHANGED <<st_who, st_acc, clock, nr_vars, fl_vars, db_vars, tl_vars>>

\* lines 176-180
ST_SessionsPrev ==
  /\ st_pc = "sessions_prev"
  /\ SessionsStep(EpSessionsPrev, "done")
  /\ UNCHANGED <<st_who, st_acc, clock, nr_vars, fl_vars, db_vars, tl_vars>>

\* lines 186-226 for the session at st_idx
ST_Position ==
  /\ st_pc = "loop"
  /\ st_idx <= Len(st_sessions)
  /\ LET session == st_sessions[st_idx]
     IN  IF ~IsObj(session) \/ "session_key" \notin DOMAIN session
         THEN /\ st_pc' = "done"
              /\ st_result' = Project(st_who, get_fallback_standings)
              /\ UNCHANGED <<st_calls, st_idx, st_acc>>
         ELSE \E resp \in PositionResponses :
                LET after == ProcessSession(st_acc, resp)
                IN  /\ st_calls' = Append(st_calls,
                                          KeyedCall(EpPosition, session.session_key, resp))
                    /\ st_acc' = after.acc
                    /\ IF after.fault
                       THEN /\ st_pc' = "done"
                            /\ st_result' = Project(st_who, get_fallback_standings)
                            /\ UNCHANGED st_idx
                       ELSE /\ st_idx' = st_idx + 1
                            /\ UNCHANGED <<st_pc, st_result>>
  /\ UNCHANGED <<st_who, st_sessions, clock, nr_vars, fl_vars, db_vars, tl_vars>>

\* lines 229-252
ST_Finish ==
  /\ st_pc = "loop"
  /\ st_idx > Len(st_sessions)
  /\ st_pc' = "done"
  /\ st_result' = Project(st_who, RankStandings(st_acc))
  /\ UNCHANGED <<st_who, st_calls, st_sessions, st_idx, st_acc, clock, nr_vars, fl_vars, db_vars, tl_vars>>

StartStandings(who, pc) ==
  /\ st_who = who
  /\ st_pc = pc
  /\ st_calls = <<>>
  /\ st_sessions = <<>>
  /\ st_idx = 0
  /\ st_acc = [drivers |-> <<>>, teams |-> <<>>]
  /\ st_result = NoResult

\* calculate_standings_from_results called on its own
InitDerive ==
  /\ clock = T0
  /\ IdleDashboard
  /\ IdleTimeLeft
  /\ StartStandings("pair", "sessions")
  /\ IdleNextRace
  /\ IdleFastestLap

NextDerive == ST_Sessions \/ ST_SessionsPrev \/ ST_Position \/ ST_Finish

SpecDerive == InitDerive /\ [][NextDerive]_vars

\* fetch_driver_standings or fetch_constructor_standings
InitStandings ==
  /\ clock = T0
  /\ IdleDashboard
  /\ IdleTimeLeft
  /\ \E who \in {"drivers", "teams"} : StartStandings(who, "primary")
  /\ IdleNextRace
  /\ IdleFastestLap

NextStandings == ST_Primary \/ ST_Sessions \/ ST_SessionsPrev \/ ST_Position \/ ST_Finish

SpecStandings == InitStandings /\ [][NextStandings]_vars

(***************************************************************************)
(* Fastest lap: records and provider data.  Durations are in milliseconds. *)
(***************************************************************************)
MaxLaps == 2        \* longest lap list drawn entry by entry

\* f"{minutes}:{seconds:06.3f}"
LapTime(duration) ==
  [min |-> duration \div 60000, sec |-> (duration % 60000) \div 1000, ms |-> duration % 1000]

FastestLap(info, lap_time, race_name, date, sector_times) ==
  [driver_name |-> info.name, abbreviation |-> info.abbr, team |-> info.team,
   lap_time |-> lap_time, race_name |-> race_name, date |-> date,
   sector_times |-> sector_times]

get_fallback_fastest_lap ==
  FastestLap(Info("Max Verstappen", "VER", "Red Bull Racing"),
             [min |-> 1, sec |-> 20, ms |-> 554],
             "Abu Dhabi Grand Prix", [fmt |-> "ymd", text |-> "2024-12-08"],
             <<25500, 35200, 19854>>)

\* latest_session.get('date_start', '')[:10]
DatePrefix(d) ==
  IF d.kind \in {"ts", "naive", "date"} THEN [fmt |-> "ymd", day |-> d.t \div Day]
  ELSE [fmt |-> "text", kind |-> d.kind]

RaceSession(session_key, date_end, date_start, meeting_name) ==
  [session_key |-> session_key, date_end |-> date_end, date_start |-> date_start,
   meeting_name |-> meeting_name]

\* ended 200 minutes before the request
SessionOld == RaceSession(9001, DateStr("ts", T0 - 200, 0), DateStr("ts", T0 - 320, 0), "Old GP")

\* besides SessionOld: one that ended 100 minutes before the request, one that
\* ended 270 minutes before it and is written with a +02:00 offset, one that ends
\* a minute after the request starts, one without an end, one whose end cannot
\* be parsed
LapSessionResponses ==
  LET LapSessions ==
        {SessionOld,
         RaceSession(9002, DateStr("ts", T0 - 100, 0), DateStr("ts", T0 - 220, 0), "Recent GP"),
         RaceSession(9003, DateStr("ts", T0 - 150, 120), DateStr("ts", T0 - 270, 120), "Offset GP"),
         RaceSession(9004, DateStr("ts", T0 + 1, 0), DateStr("ts", T0 - 119, 0), "Edge GP"),
         [session_key |-> 9005, meeting_name |-> "Running GP"],
         RaceSession(9006, DateStr("bad", 0, 0), DateStr("ts", T0 - 500, 0), "Garbled GP")}
  IN  {Absent, Response("scalar", <<>>)}
      \cup {Response("list", l) : l \in SeqsUpTo(LapSessions, MaxSessions)}

Lap(driver_number, lap_duration, lap_number) ==
  [driver_number |-> driver_number, lap_duration |-> lap_duration, lap_number |-> lap_number]

\* lap_duration 0 stands for 0 and for a JSON null; besides the lists drawn entry
\* by entry: a lap of each car of the grid, and three laps in which a car equals
\* on its second lap the best lap another car set in between
LapResponses ==
  LET LapEntries ==
        {Lap(1, 80554, 12), Lap(16, 80554, 7), Lap(1, 79000, 30), Lap(4, 0, 3),
         [lap_duration |-> 81000, lap_number |-> 3],
         [driver_number |-> 99, lap_duration |-> 59001]}
  IN  {Absent, Response("scalar", <<>>)}
      \cup {Response("list", l) : l \in SeqsUpTo(LapEntries, MaxLaps)}
      \cup {Response("list", [i \in 1..Len(Grid) |-> Lap(Grid[i], 80000 + i, i)]),
            Response("list", <<Lap(1, 80554, 12), Lap(16, 79000, 7), Lap(1, 79000, 30)>>)}

(***************************************************************************)
(* fetch_fastest_lap and fetch_fastest_laps.                               *)
(***************************************************************************)
\* get_sector_times is called at lines 489 and 560, but the module neither
\* defines nor imports the name: the call raises NameError.
get_sector_times(session_key, driver_number, lap_number) == Raise

\* lines 450-453: the parse and comparison of date_end raise on anything that is
\* not an ISO timestamp with an offset
EndFault(session) ==
  \/ ~IsObj(session)
  \/ "date_end" \in DOMAIN session /\ session.date_end.kind # "ts"

IsPastRace(session, now) ==
  "date_end" \in DOMAIN session /\ Instant(session.date_end) < now

\* s1['date_end'] < s2['date_end'] on the strings: the wall-clock text decides,
\* then the offset suffix (offsets east of UTC, "+hh:mm")
DateStrLess(d1, d2) == d1.t < d2.t \/ (d1.t = d2.t /\ d1.off < d2.off)

\* max(past_races, key=lambda s: s['date_end']): the first of the greatest
LatestSession(past_races) ==
  past_races[CHOOSE i \in 1..Len(past_races) :
               \A j \in 1..Len(past_races) :
                 \/ DateStrLess(past_races[j].date_end, past_races[i].date_end)
                 \/ (~DateStrLess(past_races[i].date_end, past_races[j].date_end) /\ i <= j)]

\* lines 448-460: the session the laps are fetched for, none, or a raise
SelectSession(sessions, now) ==
  IF \E i \in 1..Len(sessions) : EndFault(sessions[i]) THEN Raise
  ELSE LET past_races == SelectSeq(sessions, LAMBDA x : IsPastRace(x, now))
       IN  IF past_races = <<>> THEN Fall
           ELSE IF "session_key" \notin DOMAIN LatestSession(past_races) THEN Raise
           ELSE Return(LatestSession(past_races))

\* lap.get('lap_duration') and lap['lap_duration'] > 0
IsValidLap(lap) == Get(lap, "lap_duration", 0) > 0

\* min(valid_laps, key=lambda x: x['lap_duration']): the first of the least
FastestOf(valid_laps) ==
  valid_laps[FirstMin(valid_laps, LAMBDA lap : lap.lap_duration)]

\* lines 474-499 and 546-570: the FastestLap record of one lap, or a raise
LapRecord(session, lap) ==
  IF "driver_number" \notin DOMAIN lap THEN Raise
  ELSE LET sectors == get_sector_times(session.session_key, lap.driver_number,
                                       Get(lap, "lap_number", 1))
           race_name == Get(session, "meeting_name", "Unknown")
           date_start == Get(session, "date_start", EmptyDate)
       IN  IF sectors.kind = "raise" THEN Raise
           ELSE IF date_start.kind = "nonstr" \/ ~IsStr(race_name) THEN Raise
           ELSE Return(FastestLap(DriverInfo(lap.driver_number), LapTime(lap.lap_duration),
                                  race_name, DatePrefix(date_start), sectors.value))

\* lines 464-503: fetch_fastest_lap after the lap request
SingleLap(session, resp) ==
  IF resp.kind = "absent" \/ (resp.kind = "list" /\ resp.items = <<>>)
  THEN get_fallback_fastest_lap
  ELSE IF resp.kind = "scalar" \/ \E i \in 1..Len(resp.items) : ~IsObj(resp.items[i])
  THEN get_fallback_fastest_lap
  ELSE LET valid_laps == SelectSeq(resp.items, IsValidLap)
       IN  IF valid_laps = <<>> THEN get_fallback_fastest_lap
           ELSE LET rec == LapRecord(session, FastestOf(valid_laps))
                IN  IF rec.kind = "return" THEN rec.value ELSE get_fallback_fastest_lap

\* lines 534-539: each driver's best lap, in the order the drivers first appear
RECURSIVE BestLaps(_, _)
BestLaps(laps, best) ==
  IF laps = <<>> THEN [fault |-> FALSE, best |-> best]
  ELSE LET lap == Head(laps)
       IN  IF ~IsValidLap(lap) THEN BestLaps(Tail(laps), best)
           ELSE IF "driver_number" \notin DOMAIN lap THEN [fault |-> TRUE, best |-> best]
           ELSE LET i == IndexOf(best, lap.driver_number)
                IN  IF i = 0
                    THEN BestLaps(Tail(laps), Append(best, [key |-> lap.driver_number, lap |-> lap]))
                    ELSE IF lap.lap_duration < best[i].lap.lap_duration
                    THEN BestLaps(Tail(laps), [best EXCEPT ![i].lap = lap])
                    ELSE BestLaps(Tail(laps), best)

\* SortAsc without the sort: the best laps in the order the drivers first appear
SortAsc_InsertionOrder(d) == [k \in 1..Len(d) |-> d[k].lap]

\* sorted(driver_best_laps.values(), key=lambda x: x['lap_duration']): a stable
\* sort, ascending by duration
SortAsc(d) ==
  LET rank(i) == Cardinality({j \in 1..Len(d) :
                    \/ d[j].lap.lap_duration < d[i].lap.lap_duration
                    \/ (d[j].lap.lap_duration = d[i].lap.lap_duration /\ j <= i)})
  IN  [k \in 1..Len(d) |-> d[CHOOSE i \in 1..Len(d) : rank(i) = k].lap]

\* lines 530-576: fetch_fastest_laps after the lap request
TopLaps(session, resp) ==
  IF resp.kind = "absent" \/ (resp.kind = "list" /\ resp.items = <<>>)
  THEN <<get_fallback_fastest_lap>>
  ELSE IF resp.kind = "scalar" \/ \E i \in 1..Len(resp.items) : ~IsObj(resp.items[i])
  THEN <<get_fallback_fastest_lap>>
  ELSE LET bl == BestLaps(resp.items, <<>>)
           top_laps == Take(SortAsc(bl.best), TopN)
           recs == [i \in 1..Len(top_laps) |-> LapRecord(session, top_laps[i])]
       IN  IF bl.fault \/ \E i \in 1..Len(recs) : recs[i].kind # "return"
           THEN <<get_fallback_fastest_lap>>
           ELSE [i \in 1..Len(recs) |-> recs[i].value]

(***************************************************************************)
(* The fastest-lap functions as a process: one action per gateway call.    *)
(***************************************************************************)
EpLaps == "openf1/laps?session_key={session_key}"

\* get_fallback_fastest_lap() as the function called returns it
FallbackLap(who) ==
  IF who = "laps" THEN <<get_fallback_fastest_lap>> ELSE get_fallback_fastest_lap

\* LapSessionsStep without the retry on the previous year: no sessions for the
\* current year end the function at once
LapSessionsStep_NoPreviousYear(ep, next) ==
  \E resp \in LapSessionResponses, d \in Delays :
    /\ clock' = clock + d
    /\ fl_calls' = Append(fl_calls, KeyedCall(ep, 0, resp))
    /\ IF resp.kind # "list" \/ resp.items = <<>>
       THEN fl_pc' = "done" /\ fl_result' = FallbackLap(fl_who) /\ UNCHANGED fl_session
       ELSE LET sel == SelectSession(resp.items, clock')
            IN  IF sel.kind = "return"
                THEN fl_pc' = "laps" /\ fl_session' = sel.value /\ UNCHANGED fl_result
                ELSE fl_pc' = "done" /\ fl_result' = FallbackLap(fl_who) /\ UNCHANGED fl_session

LapSessionsStep(ep, next) ==
  \E resp \in LapSessionResponses, d \in Delays :
    /\ clock' = clock + d
    /\ fl_calls' = Append(fl_calls, KeyedCall(ep, 0, resp))
    /\ IF resp.kind = "absent" \/ (resp.kind = "list" /\ resp.items = <<>>)
       THEN IF next = "done"
            THEN fl_pc' = "done" /\ fl_result' = FallbackLap(fl_who) /\ UNCHANGED fl_session
            ELSE fl_pc' = next /\ UNCHANGED <<fl_result, fl_session>>
       ELSE IF resp.kind = "scalar"
       THEN fl_pc' = "done" /\ fl_result' = FallbackLap(fl_who) /\ UNCHANGED fl_session
       ELSE LET sel == SelectSession(resp.items, clock')
            IN  IF sel.kind = "return"
                THEN fl_pc' = "laps" /\ fl_session' = sel.value /\ UNCHANGED fl_result
                ELSE fl_pc' = "done" /\ fl_result' = FallbackLap(fl_who) /\ UNCHANGED fl_session

\* lines 438-442 and 448-460
FL_Sessions ==
  /\ fl_pc = "sessions"
  /\ LapSessionsStep(EpSessions, "sessions_prev")
  /\ UNCHANGED <<fl_who, nr_vars, st_vars, db_vars, tl_vars>>

\* lines 443-460
FL_SessionsPrev ==
  /\ fl_pc = "sessions_prev"
  /\ LapSessionsStep(EpSessionsPrev, "done")
  /\ UNCHANGED <<fl_who, nr_vars, st_vars, db_vars, tl_vars>>

\* lines 463-503, 529-576
FL_Laps ==
  /\ fl_pc = "laps"
  /\ \E resp \in LapResponses :
       /\ fl_calls' = Append(fl_calls, KeyedCall(EpLaps, fl_session.session_key, resp))
       /\ fl_result' = IF fl_who = "laps" THEN TopLaps(fl_session, resp)
                       ELSE SingleLap(fl_session, resp)
  /\ fl_pc' = "done"
  /\ UNCHANGED <<fl_who, fl_session, clock, nr_vars, st_vars, db_vars, tl_vars>>

InitFastestLap ==
  /\ clock = T0
  /\ IdleDashboard
  /\ IdleTimeLeft
  /\ fl_who \in {"lap", "laps"}
  /\ fl_pc = "sessions"
  /\ fl_calls = <<>>
  /\ fl_session = NoResult
  /\ fl_result = NoResult
  /\ IdleNextRace
  /\ IdleStandings

NextFastestLap == FL_Sessions \/ FL_SessionsPrev \/ FL_Laps

SpecFastestLap == InitFastestLap /\ [][NextFastestLap]_vars

(***************************************************************************)
(* Any one of the resolvers, called on its own.                            *)
(***************************************************************************)
Init == InitNextRace \/ InitStandings \/ InitDerive \/ InitFastestLap

Next ==
  \/ NR_Start \/ NR_Tier1 \/ NR_Tier2 \/ NR_Tier3 \/ NR_Tier4
  \/ ST_Primary \/ ST_Sessions \/ ST_SessionsPrev \/ ST_Position \/ ST_Finish
  \/ FL_Sessions \/ FL_SessionsPrev \/ FL_Laps

Spec == Init /\ [][Next]_vars

\* the resolvers that call the gateways themselves: fetch_next_race,
\* calculate_standings_from_results, fetch_fastest_lap and fetch_fastest_laps
InitResolver == InitNextRace \/ InitDerive \/ InitFastestLap

NextResolver ==
  \/ NR_Start \/ NR_Tier1 \/ NR_Tier2 \/ NR_Tier3 \/ NR_Tier4
  \/ ST_Sessions \/ ST_SessionsPrev \/ ST_Position \/ ST_Finish
  \/ FL_Sessions \/ FL_SessionsPrev \/ FL_Laps

SpecResolver == InitResolver /\ [][NextResolver]_vars

(***************************************************************************)
(* get_dashboard_data: the four resolvers run as tasks of asyncio.gather.  *)
(* A task runs, without interruption, from one await of a gateway call to  *)
(* the next; the tasks take their first steps in the order of gather's     *)
(* arguments, before any response is delivered.                            *)
(***************************************************************************)
\* what the providers answer to each call while a dashboard request is served
DashResponses(ep) ==
  {Absent}
  \cup CASE ep = EpDriverStandings -> {Response("scalar", <<>>),
                                       Response("list", <<DriverRowB, DriverRowA>>)}
         [] ep = EpTeamStandings -> {Response("scalar", <<>>),
                                     Response("list", <<TeamRowB, TeamRowA>>)}
         [] ep = EpSessions -> {Response("list", <<SessionOld>>)}
         [] ep = EpPosition -> {Response("list", FullGrid)}
         [] ep = EpSeason -> {Response("scalar", <<>>), Response("list", <<RSoon>>)}
         [] ep = EpMeetings -> {Response("list", <<MLater>>)}
         [] ep = EpNextSeason -> {Response("list", <<RNaive>>)}
         [] ep = EpLaps -> {Response("list", <<Lap(1, 80554, 12)>>)}
         [] OTHER -> {}

\* `'standings' in data` on a number: TypeError (lines 280, 309, 338)
ScalarFault == [type |-> "TypeError", msg |-> "argument of type 'int' is not iterable"]

DashboardData(top_drivers, top_teams, next_race, fastest_lap) ==
  [top_drivers |-> top_drivers, top_teams |-> top_teams, next_race |-> next_race,
   fastest_lap |-> fastest_lap]

HTTPException(status_code, detail) == [status_code |-> status_code, detail |-> detail]

\* a task ends: it returns a value or raises; gather keeps the first exception
Finish(b, outcome) ==
  /\ db_task' = [db_task EXCEPT ![b] = NoTask(IF outcome.kind = "return" THEN "done"
                                              ELSE "raised")]
  /\ db_result' = [db_result EXCEPT ![b] = outcome.value]
  /\ db_exc' = IF outcome.kind = "raise" /\ db_exc = NoResult THEN ScalarFault ELSE db_exc

\* a task stops at its next await
Await(b, task) ==
  /\ db_task' = [db_task EXCEPT ![b] = task]
  /\ UNCHANGED <<db_result, db_exc>>

\* lines 186-190 and 229-252: the loop of calculate_standings_from_results
\* reaches the session at t.idx and awaits its position records, or is over
EnterLoop(b, t) ==
  IF t.idx > Len(t.sessions)
  THEN Finish(b, Return(Project(b, RankStandings(t.acc))))
  ELSE IF ~IsObj(t.sessions[t.idx]) \/ "session_key" \notin DOMAIN t.sessions[t.idx]
  THEN Finish(b, Return(Project(b, get_fallback_standings)))
  ELSE Await(b, t)

\* fetch_driver_standings / fetch_constructor_standings after the response to
\* the call the task awaits
StandingsStep(b, t) ==
  CASE t.pc = "primary" ->
       \E resp \in DashResponses(IF b = "drivers" THEN EpDriverStandings
                                     ELSE EpTeamStandings) :
         LET outcome == PrimaryStandings(b, resp)
         IN  IF outcome.kind = "fall" THEN Await(b, [t EXCEPT !.pc = "sessions"])
             ELSE Finish(b, outcome)
    [] t.pc \in {"sessions", "sessions_prev"} ->
       \E resp \in DashResponses(EpSessions) :
         IF resp.kind = "absent" \/ (resp.kind = "list" /\ resp.items = <<>>)
         THEN IF t.pc = "sessions" THEN Await(b, [t EXCEPT !.pc = "sessions_prev"])
              ELSE Finish(b, Return(Project(b, get_fallback_standings)))
         ELSE IF resp.kind = "scalar"
         THEN Finish(b, Return(Project(b, get_fallback_standings)))
         ELSE EnterLoop(b, [t EXCEPT !.pc = "loop", !.sessions = resp.items, !.idx = 1])
    [] OTHER ->
       \E resp \in DashResponses(EpPosition) :
         LET after == ProcessSession(t.acc, resp)
         IN  IF after.fault THEN Finish(b, Return(Project(b, get_fallback_standings)))
             ELSE EnterLoop(b, [t EXCEPT !.idx = t.idx + 1, !.acc = after.acc])

\* fetch_next_race after the response to the call the task awaits
RaceStep(b, t, clk) ==
  CASE t.pc = "tier1" ->
       \E resp \in DashResponses(EpSeason) :
         LET outcome == Tier1(resp, t.now, clk)
         IN  IF outcome.kind = "fall" THEN Await(b, [t EXCEPT !.pc = "tier2"])
             ELSE Finish(b, outcome)
    [] t.pc = "tier2" ->
       \E resp \in DashResponses(EpMeetings) :
         LET outcome == Tier2(resp, t.now, clk)
         IN  IF outcome.kind = "fall" THEN Await(b, [t EXCEPT !.pc = "tier3"])
             ELSE Finish(b, outcome)
    [] OTHER ->
       \E resp \in DashResponses(EpNextSeason) :
         LET outcome == Tier3(resp, clk)
         IN  IF outcome.kind = "fall" THEN Finish(b, Return(SeasonBreak))
             ELSE Finish(b, outcome)

\* fetch_fastest_lap after the response to the call the task awaits
LapStep(b, t, clk) ==
  CASE t.pc \in {"sessions", "sessions_prev"} ->
       \E resp \in DashResponses(EpSessions) :
         IF resp.kind = "absent" \/ (resp.kind = "list" /\ resp.items = <<>>)
         THEN IF t.pc = "sessions" THEN Await(b, [t EXCEPT !.pc = "sessions_prev"])
              ELSE Finish(b, Return(get_fallback_fastest_lap))
         ELSE IF resp.kind = "scalar" THEN Finish(b, Return(get_fallback_fastest_lap))
         ELSE LET sel == SelectSession(resp.items, clk)
              IN  IF sel.kind = "return"
                  THEN Await(b, [t EXCEPT !.pc = "laps", !.sessions = <<sel.value>>])
                  ELSE Finish(b, Return(get_fallback_fastest_lap))
    [] OTHER ->
       \E resp \in DashResponses(EpLaps) :
         Finish(b, Return(SingleLap(t.sessions[1], resp)))

\* the first await of each resolver
FirstAwait(b) ==
  CASE b \in {"drivers", "teams"} -> "primary"
    [] b = "race" -> "tier1"
    [] OTHER -> "sessions"

AllStarted == \A b \in BranchSet : db_task[b].pc \notin {"idle", "created"}
Running(b) == db_task[b].pc \notin {"idle", "created", "done", "raised"}

\* gather as with return_exceptions=True: it waits for every task and hands an
\* exception back as that task's result
Gather_ReturnExceptions(tasks, results, exc) ==
  IF \A b \in BranchSet : tasks[b].pc \in {"done", "raised"}
  THEN Return([i \in 1..Len(Branches) |-> results[Branches[i]]])
  ELSE [kind |-> "pending", value |-> NoResult]

\* gather as asyncio.wait(..., return_when=FIRST_COMPLETED): it is over as soon as
\* one task has returned
Gather_FirstCompleted(tasks, results, exc) ==
  IF exc # NoResult THEN [kind |-> "raise", value |-> exc]
  ELSE IF \E b \in BranchSet : tasks[b].pc = "done"
  THEN Return([i \in 1..Len(Branches) |-> results[Branches[i]]])
  ELSE [kind |-> "pending", value |-> NoResult]

\* asyncio.gather(...) with return_exceptions left False: the first exception a
\* task raises is propagated at once; otherwise the results of all the tasks, in
\* the order of the arguments, once every task has returned
Gather(tasks, results, exc) ==
  IF exc # NoResult THEN [kind |-> "raise", value |-> exc]
  ELSE IF \A b \in BranchSet : tasks[b].pc = "done"
  THEN Return([i \in 1..Len(Branches) |-> results[Branches[i]]])
  ELSE [kind |-> "pending", value |-> NoResult]

\* lines 595-602: the four coroutines are created and handed to gather, which
\* wraps each in a task; the handler awaits gather
DB_Create ==
  /\ db_pc = "start"
  /\ db_pc' = "gather"
  /\ db_task' = [b \in BranchSet |-> NoTask("created")]
  /\ UNCHANGED <<db_result, db_exc, db_out, clock, nr_vars, st_vars, fl_vars, tl_vars>>

\* the event loop runs the first step of the next task: up to its first await
DB_Start ==
  /\ \E i \in 1..Len(Branches) :
       /\ db_task[Branches[i]].pc = "created"
       /\ \A j \in 1..(i - 1) : db_task[Branches[j]].pc # "created"
       /\ db_task' = [db_task EXCEPT ![Branches[i]] =
                        [NoTask(FirstAwait(Branches[i])) EXCEPT
                           !.now = IF Branches[i] = "race" THEN clock ELSE 0]]
  /\ UNCHANGED <<db_pc, db_result, db_exc, db_out, clock, nr_vars, st_vars, fl_vars, tl_vars>>

\* lines 274-328 (and 167-256) as a task
DB_Standings ==
  /\ AllStarted
  /\ \E b \in {"drivers", "teams"}, d \in Delays :
       /\ Running(b)
       /\ clock' = clock + d
       /\ StandingsStep(b, db_task[b])
  /\ UNCHANGED <<db_pc, db_out, nr_vars, st_vars, fl_vars, tl_vars>>

\* lines 330-433 as a task
DB_NextRace ==
  /\ AllStarted
  /\ Running("race")
  /\ \E d \in Delays :
       /\ clock' = clock + d
       /\ RaceStep("race", db_task["race"], clock')
  /\ UNCHANGED <<db_pc, db_out, nr_vars, st_vars, fl_vars, tl_vars>>

\* lines 435-503 as a task
DB_FastestLap ==
  /\ AllStarted
  /\ Running("lap")
  /\ \E d \in Delays :
       /\ clock' = clock + d
       /\ LapStep("lap", db_task["lap"], clock')
  /\ UNCHANGED <<db_pc, db_out, nr_vars, st_vars, fl_vars, tl_vars>>

\* lines 600-613: gather is over; the handler builds the composite record or
\* answers the exception with HTTP 500
DB_Resume ==
  /\ db_pc = "gather"
  /\ LET g == Gather(db_task, db_result, db_exc)
     IN  /\ g.kind # "pending"
         /\ IF g.kind = "raise"
            THEN /\ db_pc' = "failed"
                 /\ db_out' = HTTPException(500, <<"Error processing dashboard data: ",
                                                   g.value.msg>>)
            ELSE /\ db_pc' = "done"
                 /\ db_out' = DashboardData(g.value[1], g.value[2], g.value[3], g.value[4])
  /\ UNCHANGED <<db_task, db_result, db_exc, clock, nr_vars, st_vars, fl_vars, tl_vars>>

InitDashboard ==
  /\ clock = T0
  /\ db_pc = "start"
  /\ db_task = [b \in BranchSet |-> NoTask("idle")]
  /\ db_result = [b \in BranchSet |-> NoResult]
  /\ db_exc = NoResult
  /\ db_out = NoResult
  /\ IdleTimeLeft
  /\ IdleNextRace
  /\ IdleStandings
  /\ IdleFastestLap

NextDashboard ==
  DB_Create \/ DB_Start \/ DB_Standings \/ DB_NextRace \/ DB_FastestLap \/ DB_Resume

SpecDashboard == InitDashboard /\ [][NextDashboard]_vars

\* the event loop resumes the handler once gather is over
SpecDashboardLive == SpecDashboard /\ WF_vars(DB_Resume)

(***************************************************************************)
(* calculate_time_left called on its own.                                  *)
(***************************************************************************)
MaxDays == 2       \* the targets are at most MaxDays days and some hours ahead

\* the arguments: timestamps with 'Z', with a +02:00 offset, without an offset,
\* dates (the midnight the date names), and strings and values that do not parse;
\* TargetDistances are the distances from T0 to the wall-clock time written
TimeLeftTargets ==
  LET TargetDistances ==
        {-10, -1}
        \cup {d * Day + h * Hour + m :
                d \in 0..MaxDays, h \in {0, 1, 3, 5, 23}, m \in {0, 1, 45, 59}}
  IN  {DateStr("ts", T0 + x, 0) : x \in TargetDistances}
      \cup {DateStr("ts", T0 + x, 120) : x \in TargetDistances}
      \cup {DateStr("naive", T0 + x, 0) : x \in TargetDistances}
      \cup {DateStr("date", T0 + d * Day, 0) : d \in -1..MaxDays}
      \cup {DateStr("bad", 0, 0), EmptyDate, DateStr("nonstr", 0, 0)}

\* lines 110-143
TL_Call ==
  /\ tl_pc = "called"
  /\ tl_result' = calculate_time_left(tl_target, clock)
  /\ tl_pc' = "done"
  /\ UNCHANGED <<tl_target, clock, nr_vars, st_vars, fl_vars, db_vars>>

InitTimeLeft ==
  /\ clock \in T0..(T0 + MaxElapsed)
  /\ tl_pc = "called"
  /\ tl_target \in TimeLeftTargets
  /\ tl_result = Countdown("Unknown", 0, 0)
  /\ IdleNextRace
  /\ IdleStandings
  /\ IdleFastestLap
  /\ IdleDashboard

SpecTimeLeft == InitTimeLeft /\ [][TL_Call]_vars

(***************************************************************************)
(* Claims about fetch_next_race.                                           *)
(***************************************************************************)
\* the endpoints called so far, in call order
NREndpoints == [i \in 1..Len(nr_calls) |-> nr_calls[i].ep]

\* the primary response lists a race whose start is strictly after now
ListsUpcomingRace(resp, now) ==
  /\ resp.kind = "list"
  /\ \E i \in 1..Len(resp.items) :
       LET e == resp.items[i]
       IN  /\ IsObj(e)
           /\ "date" \in DOMAIN e
           /\ \/ e.date.kind = "ts" /\ e.date.t - e.date.off > now
              \/ e.date.kind = "date" /\ e.date.t + 15 * Hour > now

\* C1: the tiers of fetch_next_race are consulted in the order primary(year),
\* secondary meetings(year), primary(year+1), and whenever the primary response
\* lists a race starting strictly after now, neither the secondary provider nor
\* the year+1 endpoint is called.
C1_TierOrder ==
  /\ NREndpoints \in {<<>>, <<EpSeason>>, <<EpSeason, EpMeetings>>,
                      <<EpSeason, EpMeetings, EpNextSeason>>}
  /\ (Len(nr_calls) >= 1 /\ ListsUpcomingRace(nr_calls[1].resp, nr_now))
       => NREndpoints = <<EpSeason>>

\* the part of C1 the code keeps: the call order, and no later call once a tier
\* has returned a race
C1_OrderOnly ==
  /\ NREndpoints \in {<<>>, <<EpSeason>>, <<EpSeason, EpMeetings>>,
                      <<EpSeason, EpMeetings, EpNextSeason>>}
  /\ (Len(nr_calls) >= 2) => Tier1(nr_calls[1].resp, nr_now, nr_now).kind = "fall"

\* a meeting with a start strictly after now and no field that is not a string
FutureMeeting(m, now) ==
  /\ IsObj(m)
  /\ "date_start" \in DOMAIN m
  /\ m.date_start.kind = "ts"
  /\ m.date_start.t - m.date_start.off > now
  /\ \A k \in DOMAIN m \ {"date_start"} : m[k] # Null

\* the countdown of section 4.2 for an interval of delta minutes
C2_Countdown(delta) ==
  IF delta < 0 THEN [fmt |-> "Race completed", a |-> 0, b |-> 0]
  ELSE IF delta >= 1440 THEN [fmt |-> "days, hours", a |-> delta \div 1440,
                              b |-> (delta % 1440) \div 60]
  ELSE IF delta >= 60 THEN [fmt |-> "hours, minutes", a |-> delta \div 60, b |-> delta % 60]
  ELSE [fmt |-> "minutes", a |-> delta, b |-> 0]

C2_Case ==
  /\ Len(nr_calls) >= 2
  /\ nr_calls[1].resp = Absent
  /\ nr_calls[2].resp.kind = "list"
  /\ Len(nr_calls[2].resp.items) = 1
  /\ FutureMeeting(nr_calls[2].resp.items[1], nr_now)

C3_AlwaysNextRace ==
  /\ nr_pc # "raised"
  /\ nr_pc = "done" => nr_result # NoResult
  /\ (nr_pc = "done" /\ Len(nr_calls) = 3
        /\ Tier3(nr_calls[3].resp, clock).kind # "return") => nr_result = SeasonBreak

(***************************************************************************)
(* Claims about the standings.                                             *)
(***************************************************************************)
\* C5: a standings list returned by fetch_driver_standings or
\* fetch_constructor_standings has positions exactly 1..k with k <= 10 and points
\* that do not increase with the position.
C5_RankedStandings ==
  (st_pc = "done" /\ st_who \in {"drivers", "teams"}) =>
    /\ Len(st_result) <= 10
    /\ \A i \in 1..Len(st_result) : st_result[i].position = i
    /\ \A i, j \in 1..Len(st_result) : i < j => st_result[i].points >= st_result[j].points

\* the part of C5 the code keeps: the positions, and the order of the points of
\* a list that was derived from position records or is the static fallback
C5_DerivedRanked ==
  (st_pc = "done" /\ st_who \in {"drivers", "teams"}) =>
    /\ Len(st_result) <= 10
    /\ \A i \in 1..Len(st_result) : st_result[i].position = i
    /\ Len(st_calls) > 1 =>
         \A i, j \in 1..Len(st_result) : i < j => st_result[i].points >= st_result[j].points

\* the position responses processed so far, in call order
PositionLog ==
  LET idx == {i \in 1..Len(st_calls) : st_calls[i].ep = EpPosition}
      nth(k) == CHOOSE i \in idx : Cardinality({j \in idx : j <= i}) = k
  IN  [k \in 1..Cardinality(idx) |-> st_calls[nth(k)].resp.items]

\* the cars the list has a record of
CarsOf(list) == {list[i].driver_number : i \in 1..Len(list)}

\* the table value of the car's final position in the session: the record with
\* the latest date (the first listed of those), 0 for a position that is missing
\* or not in 1..10, 0 for a car the session has no record of
SessionPoints(list, car) ==
  LET own == {i \in 1..Len(list) : list[i].driver_number = car}
      last == CHOOSE i \in own :
                \A j \in own : list[j].date < list[i].date
                               \/ (list[j].date = list[i].date /\ i <= j)
      table == <<25, 18, 15, 12, 10, 8, 6, 4, 2, 1>>
  IN  IF own = {} THEN 0
      ELSE IF "position" \notin DOMAIN list[last] THEN 0
      ELSE IF list[last].position \in 1..10 THEN table[list[last].position]
      ELSE 0

RECURSIVE SumPoints(_, _)
SumPoints(log, car) ==
  IF log = <<>> THEN 0 ELSE SessionPoints(Head(log), car) + SumPoints(Tail(log), car)

\* the points accumulated for the car in driver_points
AccPoints(car) ==
  LET i == IndexOf(st_acc.drivers, <<car, DriverInfo(car).name>>)
  IN  IF i = 0 THEN 0 ELSE st_acc.drivers[i].points

SeenCars == UNION {CarsOf(PositionLog[k]) : k \in 1..Len(PositionLog)}

\* C6: when calculate_standings_from_results has processed position records,
\* every driver's points, accumulated and returned, are the sum over the
\* processed sessions of the table value of the driver's final position, a
\* position of 11 or more or a missing position counting 0.
C6_PointsTable ==
  (st_who = "pair" /\ st_pc = "done" /\ SeenCars # {}) =>
    /\ \A car \in SeenCars : AccPoints(car) = SumPoints(PositionLog, car)
    /\ \A i \in 1..Len(st_result.drivers) :
         \E car \in SeenCars :
           /\ st_result.drivers[i].driver_name = DriverInfo(car).name
           /\ st_result.drivers[i].points = SumPoints(PositionLog, car)

\* the part of C6 the code keeps: the sums, when the loop over the sessions
\* ran to its end without raising
C6_PointsTableKeyed ==
  (st_who = "pair" /\ st_pc = "done" /\ SeenCars # {} /\ st_idx > Len(st_sessions)) =>
    /\ \A car \in SeenCars : AccPoints(car) = SumPoints(PositionLog, car)
    /\ \A i \in 1..Len(st_result.drivers) :
         \E car \in SeenCars :
           /\ st_result.drivers[i].driver_name = DriverInfo(car).name
           /\ st_result.drivers[i].points = SumPoints(PositionLog, car)

\* C7: calculate_standings_from_results never returns an empty standings pair,
\* and returns the static fallback pair whenever no session yielded position
\* data (no sessions for either year, or sessions without position records).
C7_FallbackStandings ==
  (st_who = "pair" /\ st_pc = "done") =>
    /\ st_result.drivers # <<>>
    /\ st_result.teams # <<>>
    /\ SeenCars = {} => st_result = get_fallback_standings

\* the part of C7 the code keeps: the fallback pair when neither year has
\* sessions and when the computation raises
C7_FallbackNoSessions ==
  (st_who = "pair" /\ st_pc = "done" /\ ~(\E i \in 1..Len(st_calls) : st_calls[i].ep = EpPosition))
    => st_result = get_fallback_standings

(***************************************************************************)
(* Claims about the fastest lap.                                           *)
(***************************************************************************)
FLEndpoints == [i \in 1..Len(fl_calls) |-> fl_calls[i].ep]

\* the gateway returned no sessions
NoSessions(resp) == resp.kind = "absent" \/ (resp.kind = "list" /\ resp.items = <<>>)

C8_Case ==
  /\ fl_who = "lap"
  /\ fl_pc = "done"
  /\ NoSessions(fl_calls[1].resp)
  /\ Len(fl_calls) >= 2 => NoSessions(fl_calls[2].resp)

\* C8: when the gateway returns no sessions for the current year and none for
\* the previous year, fetch_fastest_lap ends after exactly the two session
\* requests, without a lap request, with the static fallback lap (Max
\* Verstappen, 1:20.554, three sector values).
C8_NoSessionsFallback ==
  C8_Case =>
    /\ FLEndpoints = <<EpSessions, EpSessionsPrev>>
    /\ fl_result.driver_name = "Max Verstappen"
    /\ fl_result.lap_time = [min |-> 1, sec |-> 20, ms |-> 554]
    /\ Len(fl_result.sector_times) = 3

C8_Witness ==
  /\ C8_Case
  /\ Len(fl_calls) = 2
  /\ fl_calls[1].resp = Absent
  /\ fl_calls[2].resp = Response("list", <<>>)
  /\ fl_result = get_fallback_fastest_lap

\* the lap request was made and its response has a lap with a positive duration
HasValidLap ==
  /\ fl_pc = "done"
  /\ Len(fl_calls) >= 2
  /\ fl_calls[Len(fl_calls)].ep = EpLaps
  /\ fl_calls[Len(fl_calls)].resp.kind = "list"
  /\ \A i \in 1..Len(fl_calls[Len(fl_calls)].resp.items) :
       /\ "driver_number" \in DOMAIN fl_calls[Len(fl_calls)].resp.items[i]
       /\ "lap_duration" \in DOMAIN fl_calls[Len(fl_calls)].resp.items[i]
  /\ \E i \in 1..Len(fl_calls[Len(fl_calls)].resp.items) :
       fl_calls[Len(fl_calls)].resp.items[i].lap_duration > 0

\* the laps of the lap response that have a positive duration
ValidLaps ==
  LET laps == fl_calls[Len(fl_calls)].resp.items
  IN  {laps[i] : i \in {j \in 1..Len(laps) : laps[j].lap_duration > 0}}

\* C9: when a session ended strictly before now and the most recently ended
\* one has a lap with a positive duration, fetch_fastest_lap returns the driver
\* and the lap time of a lap of minimum duration, not the static fallback lap.
C9_FastestOfLatest ==
  (fl_who = "lap" /\ HasValidLap) =>
    \E lap \in ValidLaps :
      /\ \A other \in ValidLaps : lap.lap_duration <= other.lap_duration
      /\ fl_result.driver_name = DriverInfo(lap.driver_number).name
      /\ fl_result.lap_time = [min |-> lap.lap_duration \div 60000,
                               sec |-> (lap.lap_duration % 60000) \div 1000,
                               ms |-> lap.lap_duration % 1000]
      /\ fl_result.race_name = fl_session.meeting_name

\* C10: a valid lap is returned even though its sector times cannot be had:
\* fetch_fastest_lap returns the selected lap, fetch_fastest_laps the selected
\* laps, with an empty sector sequence and not the static fallback lap.
C10_SectorsNeverBlock ==
  HasValidLap =>
    IF fl_who = "lap"
    THEN fl_result # get_fallback_fastest_lap /\ fl_result.sector_times = <<>>
    ELSE /\ fl_result # <<get_fallback_fastest_lap>>
         /\ Len(fl_result) >= 1
         /\ \A i \in 1..Len(fl_result) : fl_result[i].sector_times = <<>>

(***************************************************************************)
(* Claims about fetch_fastest_laps.                                        *)
(***************************************************************************)
\* the lap_time of a FastestLap record, in milliseconds
LapMillis(rec) == rec.lap_time.min * 60000 + rec.lap_time.sec * 1000 + rec.lap_time.ms

\* fetch_fastest_laps made its lap request and received a list of lap records
LapsListed ==
  /\ fl_who = "laps"
  /\ fl_pc = "done"
  /\ Len(fl_calls) >= 2
  /\ fl_calls[Len(fl_calls)].ep = EpLaps
  /\ fl_calls[Len(fl_calls)].resp.kind = "list"
  /\ \A i \in 1..Len(fl_calls[Len(fl_calls)].resp.items) :
       IsObj(fl_calls[Len(fl_calls)].resp.items[i])

\* top_laps of line 542 for the lap records the gateway returned
SelectedLaps ==
  Take(SortAsc(BestLaps(fl_calls[Len(fl_calls)].resp.items, <<>>).best), TopN)

\* C11: the list fetch_fastest_laps returns has at most 10 entries, no two for
\* the same driver, in ascending order of lap time; the laps it selects from
\* the lap records (one best lap per car number, sorted, cut to 10) have the
\* same three properties.
C11_TopLapsDistinctSorted ==
  /\ (fl_who = "laps" /\ fl_pc = "done") =>
       /\ Len(fl_result) <= 10
       /\ \A i, j \in 1..Len(fl_result) :
            i < j => /\ fl_result[i].driver_name # fl_result[j].driver_name
                     /\ LapMillis(fl_result[i]) <= LapMillis(fl_result[j])
  /\ LapsListed =>
       LET top_laps == SelectedLaps
       IN  /\ Len(top_laps) <= 10
           /\ \A i, j \in 1..Len(top_laps) :
                i < j => /\ top_laps[i].driver_number # top_laps[j].driver_number
                         /\ top_laps[i].lap_duration <= top_laps[j].lap_duration

\* the lap records hold two valid laps of one car, or more than ten cars
C11_Witness ==
  /\ LapsListed
  /\ LET laps == fl_calls[Len(fl_calls)].resp.items
     IN  \/ /\ Len(laps) = 2
            /\ IsValidLap(laps[1]) /\ IsValidLap(laps[2])
            /\ "driver_number" \in DOMAIN laps[1] /\ "driver_number" \in DOMAIN laps[2]
            /\ laps[1].driver_number = laps[2].driver_number
            /\ laps[1].lap_duration > laps[2].lap_duration
            /\ Len(SelectedLaps) = 1
         \/ /\ Len(laps) > 10
            /\ Len(SelectedLaps) = 10

(***************************************************************************)
(* Claims about calculate_time_left.                                       *)
(***************************************************************************)
\* the interval from now to the instant the target names; a target without an
\* offset names a UTC time, a date its midnight UTC
TargetInterval ==
  (IF tl_target.kind = "ts" THEN tl_target.t - tl_target.off ELSE tl_target.t) - clock

\* C15: calculate_time_left renders the interval from now to the target as
\* "<days> days, <hours> hours" if days > 0, else "<hours> hours, <minutes>
\* minutes" if hours > 0, else "<minutes> minutes"; a past target renders "Race
\* completed", a target that does not parse "Unknown"; 2 days 3 hours ahead
\* renders "2 days, 3 hours", 45 minutes ahead "45 minutes", 10 minutes in the
\* past "Race completed".
C15_CountdownRendering ==
  tl_pc = "done" =>
    IF tl_target.kind \in {"bad", "empty", "nonstr"}
    THEN tl_result = [fmt |-> "Unknown", a |-> 0, b |-> 0]
    ELSE /\ TargetInterval < 0 => tl_result = [fmt |-> "Race completed", a |-> 0, b |-> 0]
         /\ TargetInterval >= 1440 =>
              tl_result = [fmt |-> "days, hours", a |-> TargetInterval \div 1440,
                           b |-> (TargetInterval % 1440) \div 60]
         /\ (TargetInterval >= 60 /\ TargetInterval < 1440) =>
              tl_result = [fmt |-> "hours, minutes", a |-> TargetInterval \div 60,
                           b |-> TargetInterval % 60]
         /\ (TargetInterval >= 0 /\ TargetInterval < 60) =>
              tl_result = [fmt |-> "minutes", a |-> TargetInterval, b |-> 0]
         /\ TargetInterval = 2 * 1440 + 3 * 60 =>
              tl_result = [fmt |-> "days, hours", a |-> 2, b |-> 3]
         /\ TargetInterval = 45 => tl_result = [fmt |-> "minutes", a |-> 45, b |-> 0]
         /\ TargetInterval = -10 => tl_result = [fmt |-> "Race completed", a |-> 0, b |-> 0]

\* a target written with a +02:00 offset, 2 days and 3 hours ahead of a clock
\* that has moved on since the request started
C15_Witness ==
  /\ tl_pc = "done"
  /\ clock > T0
  /\ tl_target.kind = "ts"
  /\ tl_target.off = 120
  /\ TargetInterval = 2 * 1440 + 3 * 60
  /\ tl_result = [fmt |-> "days, hours", a |-> 2, b |-> 3]

(***************************************************************************)
(* Claims about get_dashboard_data.                                        *)
(***************************************************************************)
Finished(b) == db_task[b].pc \in {"done", "raised"}
Raised(b) == db_task[b].pc = "raised"

\* the response is a composite record
IsComposite(out) == DOMAIN out = {"top_drivers", "top_teams", "next_race", "fastest_lap"}

\* the response is a composite record whose four fields are what the tasks returned
CompositeOfResults ==
  /\ IsComposite(db_out)
  /\ db_out.top_drivers = db_result["drivers"]
  /\ db_out.top_teams = db_result["teams"]
  /\ db_out.next_race = db_result["race"]
  /\ db_out.fastest_lap = db_result["lap"]

\* C12: a failure in one branch of the dashboard never keeps another branch's
\* result out of the response: when the handler has answered, the response is a
\* composite record, and it has the field of every branch that returned.
C12_IndependentBranches ==
  db_pc \in {"done", "failed"} =>
    /\ IsComposite(db_out)
    /\ db_task["drivers"].pc = "done" => db_out.top_drivers = db_result["drivers"]
    /\ db_task["teams"].pc = "done" => db_out.top_teams = db_result["teams"]
    /\ db_task["race"].pc = "done" => db_out.next_race = db_result["race"]
    /\ db_task["lap"].pc = "done" => db_out.fastest_lap = db_result["lap"]

C13_Safe ==
  /\ (\E b \in BranchSet : Raised(b)) => db_pc \in {"gather", "failed"}
  /\ ((\E b \in BranchSet : Raised(b)) /\ db_pc = "gather") =>
        Gather(db_task, db_result, db_exc).kind = "raise"
  /\ db_pc = "failed" =>
       /\ \E b \in BranchSet : Raised(b)
       /\ db_out = HTTPException(500, <<"Error processing dashboard data: ",
                                        "argument of type 'int' is not iterable">>)

\* C13: when a fault escapes one of the four resolvers, get_dashboard_data
\* builds no composite record; the request ends in HTTP 500 with a message
\* naming the fault, whichever branch raised and whatever the other branches
\* had done by then.
C13_FaultEndsInServerError ==
  /\ []C13_Safe
  /\ (\E b \in BranchSet : Raised(b)) ~> (db_pc = "failed")

\* the third branch raised after the first had returned and while the second
\* was still waiting for its provider
C13_Witness ==
  /\ db_pc = "failed"
  /\ Raised("race")
  /\ db_task["drivers"].pc = "done"
  /\ Running("teams")
  /\ ~IsComposite(db_out)

C14_Safe ==
  /\ (\E b \in BranchSet : db_task[b].pc # "idle") => db_pc # "start"
  /\ (\E b \in BranchSet : Finished(b)) => AllStarted
  /\ db_pc = "done" => /\ \A b \in BranchSet : db_task[b].pc = "done"
                       /\ CompositeOfResults
  /\ \A b \in BranchSet : db_task[b].pc # "cancelled"

\* a step of one branch leaves the other branches alone, a branch that has
\* ended keeps what it returned, and the handler's own step ends no branch
C14_Step ==
  \A b \in BranchSet :
    /\ Finished(b) => db_task'[b] = db_task[b]
    /\ (db_pc # "start" /\ db_task'[b] # db_task[b]) =>
          /\ db_pc' = db_pc
          /\ \A c \in BranchSet \ {b} : db_task'[c] = db_task[c]

\* C14: the four branches are all started before any of them completes, the
\* composite record is built only after all four have returned and then holds
\* in each field what its own branch returned, and no branch is cancelled or
\* cut short by another branch or by the handler, under every interleaving.
C14_GatherAll ==
  /\ []C14_Safe
  /\ [][C14_Step]_vars
  /\ (\A b \in BranchSet : db_task[b].pc = "done") ~> (db_pc = "done")

\* the composite record of a request in which the drivers came from the static
\* fallback, the teams from the primary provider and no race was found
C14_Witness ==
  /\ db_pc = "done"
  /\ CompositeOfResults
  /\ db_out.top_drivers = get_fallback_standings.drivers
  /\ Len(db_out.top_teams) = 2
  /\ db_out.next_race = SeasonBreak

(***************************************************************************)
(* Claims about all the resolvers.                                         *)
(***************************************************************************)
\* C4: none of fetch_driver_standings, fetch_constructor_standings,
\* fetch_next_race, fetch_fastest_lap and fetch_fastest_laps raises to its caller,
\* whatever the gateway returns.
C4_NoFaultSurfaces == nr_pc # "raised" /\ st_pc # "raised" /\ fl_pc # "raised"

\* the part of C4 the code keeps: the two fastest-lap functions and
\* calculate_standings_from_results never raise
C4_LapAndDeriveNeverRaise == fl_pc # "raised" /\ (st_who = "pair" => st_pc # "raised")

(***************************************************************************)
(* Claims about the gateway calls of one invocation.                       *)
(***************************************************************************)
\* the requests of the invocation so far, each as the endpoint with its
\* parameter substituted, and the response it got
Requests ==
  [i \in 1..Len(nr_calls) |-> [url |-> <<nr_calls[i].ep, 0>>, resp |-> nr_calls[i].resp]]
  \o [i \in 1..Len(st_calls) |-> [url |-> <<st_calls[i].ep, st_calls[i].key>>,
                                   resp |-> st_calls[i].resp]]
  \o [i \in 1..Len(fl_calls) |-> [url |-> <<fl_calls[i].ep, fl_calls[i].key>>,
                                   resp |-> fl_calls[i].resp]]

\* the session keys of the position requests made so far, in call order
PositionKeys ==
  LET idx == {i \in 1..Len(st_calls) : st_calls[i].ep = EpPosition}
      nth(k) == CHOOSE i \in idx : Cardinality({j \in idx : j <= i}) = k
  IN  [k \in 1..Cardinality(idx) |-> st_calls[nth(k)].key]

WellFormedEmpty(resp) ==
  resp.kind = "empty" \/ (resp.kind = "list" /\ resp.items = <<>>)

\* the response of a call made by this step, when it is absent or well-formed
\* empty
NoData(calls_before, calls_after) ==
  /\ Len(calls_after) = Len(calls_before) + 1
  /\ LET resp == calls_after[Len(calls_after)].resp
     IN  resp = Absent \/ WellFormedEmpty(resp)

\* what fetch_next_race does after an absent response: the next tier
NextRaceMovesOn ==
  /\ nr_pc' = CASE nr_pc = "tier1" -> "tier2"
                [] nr_pc = "tier2" -> "tier3"
                [] OTHER -> "tier4"
  /\ nr_result' = NoResult
  /\ nr_tcalc' = nr_tcalc

\* what the session lookup, the session loop and the fastest-lap functions do
\* after an absent response: the previous year, the static fallback, the next
\* session
DeriveMovesOn ==
  CASE st_pc = "sessions" ->
         st_pc' = "sessions_prev" /\ UNCHANGED <<st_sessions, st_idx, st_acc, st_result>>
    [] st_pc = "sessions_prev" ->
         /\ st_pc' = "done"
         /\ st_result' = Project(st_who, get_fallback_standings)
         /\ UNCHANGED <<st_sessions, st_idx, st_acc>>
    [] OTHER ->
         st_idx' = st_idx + 1 /\ UNCHANGED <<st_pc, st_sessions, st_acc, st_result>>

FastestLapMovesOn ==
  CASE fl_pc = "sessions" -> fl_pc' = "sessions_prev" /\ UNCHANGED <<fl_session, fl_result>>
    [] OTHER -> fl_pc' = "done" /\ fl_result' = FallbackLap(fl_who) /\ UNCHANGED fl_session

\* what fetch_driver_standings and fetch_constructor_standings do after an
\* absent summary: the derivation from race results
PrimaryMovesOn ==
  st_pc' = "sessions" /\ st_result' = NoResult /\ UNCHANGED <<st_sessions, st_idx, st_acc>>

\* C17: every resolver treats an absent gateway response and a well-formed empty
\* one (empty object, empty array, summary with an empty standings or races list)
\* alike: after either, at the same clock, it is in the same position with the
\* same locals, so it makes the same subsequent calls and returns the same result.
C17_AbsentAsEmpty ==
  [][/\ NoData(nr_calls, nr_calls') => NextRaceMovesOn
     /\ (NoData(st_calls, st_calls') /\ st_pc = "primary") => PrimaryMovesOn
     /\ (NoData(st_calls, st_calls') /\ st_pc # "primary") => DeriveMovesOn
     /\ NoData(fl_calls, fl_calls') => FastestLapMovesOn]_vars

\* the part of C17 the code keeps: every call but the standings summary
C17_AbsentAsEmptyBelowSummary ==
  [][/\ NoData(nr_calls, nr_calls') => NextRaceMovesOn
     /\ (NoData(st_calls, st_calls') /\ st_pc = "primary"
           /\ st_calls'[1].resp.kind # "list") => PrimaryMovesOn
     /\ (NoData(st_calls, st_calls') /\ st_pc # "primary") => DeriveMovesOn
     /\ NoData(fl_calls, fl_calls') => FastestLapMovesOn]_vars

(***************************************************************************)
(* Claims about the final positions of a session.                          *)
(***************************************************************************)
\* the table value of a position record
RecordPoints(pos) ==
  LET table == <<25, 18, 15, 12, 10, 8, 6, 4, 2, 1>>
  IN  IF "position" \in DOMAIN pos /\ pos.position \in 1..10 THEN table[pos.position] ELSE 0

\* the records of the car in the list that carry the car's latest date
LatestOf(list, car) ==
  {i \in 1..Len(list) :
     /\ list[i].driver_number = car
     /\ \A j \in 1..Len(list) :
          list[j].driver_number = car => list[j].date <= list[i].date}

\* this step has processed a position list and the loop goes on
SessionScored ==
  /\ st_pc = "loop"
  /\ st_pc' = "loop"
  /\ Len(st_calls') = Len(st_calls) + 1
  /\ st_calls'[Len(st_calls')].resp.kind = "list"

\* C18: for each session and each car number exactly one position record is
\* scored, the one with the latest timestamp among the car's records of the
\* session, whatever the order the records are listed in: the car is credited
\* the points of that record, whichever of its records with the latest
\* timestamp one takes.
C18_LatestRecordScored ==
  [][SessionScored =>
       LET list == st_calls'[Len(st_calls')].resp.items
       IN  \A car \in CarsOf(list) :
             \A i \in LatestOf(list, car) :
               AccPoints(car)' - AccPoints(car) = RecordPoints(list[i])]_vars

\* C18 as the code keeps it: the car is credited the points of exactly one
\* record, the first listed of its records with the latest timestamp
C18_FirstOfLatestScored ==
  [][SessionScored =>
       LET list == st_calls'[Len(st_calls')].resp.items
       IN  \A car \in CarsOf(list) :
             LET first == CHOOSE i \in LatestOf(list, car) :
                            \A j \in LatestOf(list, car) : i <= j
             IN  AccPoints(car)' - AccPoints(car) = RecordPoints(list[first])]_vars

\* car 1's records were listed oldest first in one session and newest first in
\* the other; both times the newer record, outside the points, was scored
C18_Witness ==
  /\ st_pc = "done"
  /\ Len(PositionLog) = 2
  /\ PositionLog[1] = <<Position(1, 1, 1), Position(1, 2, 11)>>
  /\ PositionLog[2] = <<Position(1, 2, 11), Position(1, 1, 1)>>
  /\ AccPoints(1) = 0

(***************************************************************************)
(* Claims about the candidates of a tier of fetch_next_race.               *)
(***************************************************************************)
\* the start the tier reads from an entry's date: the instant a timestamp with
\* an offset names, 15:00 UTC of a date in tier 1; no start (0) for a date that
\* does not parse or carries no offset, which the tier cannot compare with now
StartOf(entry, key, tier) ==
  IF ~IsObj(entry) \/ key \notin DOMAIN entry THEN 0
  ELSE CASE entry[key].kind = "ts" -> entry[key].t - entry[key].off
         [] entry[key].kind = "date" /\ tier = 1 -> entry[key].t + 15 * Hour
         [] OTHER -> 0

\* entry i of the list starts strictly after now and no listed entry that
\* starts strictly after now starts earlier
EarliestUpcoming(list, i, key, tier) ==
  /\ StartOf(list[i], key, tier) > nr_now
  /\ \A j \in 1..Len(list) :
       StartOf(list[j], key, tier) > nr_now
         => StartOf(list[j], key, tier) >= StartOf(list[i], key, tier)

\* C19: the race tier 1 returns is a listed entry whose start is strictly after
\* now, and no other listed entry with a parseable start strictly after now
\* starts earlier; likewise the meeting tier 2 returns.  Entries starting at or
\* before now are never returned by these tiers.
C19_EarliestUpcomingReturned ==
  /\ (nr_pc = "done" /\ Len(nr_calls) = 1) =>
       LET races == nr_calls[1].resp.items
       IN  \E i \in 1..Len(races) :
             /\ EarliestUpcoming(races, i, "date", 1)
             /\ nr_result = Tier1Record(races[i], nr_tcalc)
  /\ (nr_pc = "done" /\ Len(nr_calls) = 2) =>
       LET meetings == nr_calls[2].resp.items
       IN  \E i \in 1..Len(meetings) :
             /\ EarliestUpcoming(meetings, i, "date_start", 2)
             /\ nr_result = Tier2Record(meetings[i], nr_tcalc)

\* the later race is listed before the one a minute ahead, which is returned
C19_Witness ==
  /\ nr_pc = "done"
  /\ Len(nr_calls) = 1
  /\ Len(nr_calls[1].resp.items) = 2
  /\ nr_calls[1].resp.items[2] = RSoon
  /\ StartOf(nr_calls[1].resp.items[1], "date", 1) > StartOf(RSoon, "date", 1)
  /\ nr_result.race_name = "Soon GP"

\* the tier's per-candidate block fails on the entry's date: it does not parse,
\* or parses without an offset and cannot be compared with now
DateFails(entry, key, tier) ==
  /\ IsObj(entry)
  /\ key \in DOMAIN entry
  /\ entry[key].kind \in {"bad", "nonstr", "naive"} \cup (IF tier = 2 THEN {"date"} ELSE {})

\* a well-formed entry starting strictly after now: its other fields are strings
WellFormedUpcoming(entry, key, tier) ==
  /\ StartOf(entry, key, tier) > nr_now
  /\ \A k \in DOMAIN entry \ {key} : entry[k] # Null

\* a list of well-formed entries starting after now and entries whose date
\* fails, at least one of each
MixedList(resp, key, tier) ==
  /\ resp.kind = "list"
  /\ \A i \in 1..Len(resp.items) :
       DateFails(resp.items[i], key, tier) \/ WellFormedUpcoming(resp.items[i], key, tier)
  /\ \E i \in 1..Len(resp.items) : DateFails(resp.items[i], key, tier)
  /\ \E i \in 1..Len(resp.items) : WellFormedUpcoming(resp.items[i], key, tier)

\* the tier that made call n returned a well-formed entry of its list, and no
\* later tier was consulted
ReturnedWellFormed(n, key) ==
  /\ Len(nr_calls) = n
  /\ nr_pc = "done"
  /\ \E i \in 1..Len(nr_calls[n].resp.items) :
       LET e == nr_calls[n].resp.items[i]
       IN  /\ WellFormedUpcoming(e, key, n)
           /\ nr_result = CASE n = 1 -> Tier1Record(e, nr_tcalc)
                            [] n = 2 -> Tier2Record(e, nr_tcalc)
                            [] OTHER -> Tier3Record(e, nr_tcalc)

\* C20: in each tier of fetch_next_race a date-parsing failure on one candidate
\* skips only that candidate: when the tier's list holds a malformed entry
\* together with a well-formed entry starting strictly after now, the tier
\* returns the well-formed entry and no later tier is consulted.
C20_MalformedSkipped ==
  /\ (Len(nr_calls) >= 1 /\ MixedList(nr_calls[1].resp, "date", 1))
       => ReturnedWellFormed(1, "date")
  /\ (Len(nr_calls) >= 2 /\ MixedList(nr_calls[2].resp, "date_start", 2))
       => ReturnedWellFormed(2, "date_start")
  /\ (Len(nr_calls) >= 3 /\ MixedList(nr_calls[3].resp, "date", 3))
       => ReturnedWellFormed(3, "date")

\* C20 as the code keeps it: in tiers 1 and 2, which filter their candidates by
\* date
C20_MalformedSkippedInFilteringTiers ==
  /\ (Len(nr_calls) >= 1 /\ MixedList(nr_calls[1].resp, "date", 1))
       => ReturnedWellFormed(1, "date")
  /\ (Len(nr_calls) >= 2 /\ MixedList(nr_calls[2].resp, "date_start", 2))
       => ReturnedWellFormed(2, "date_start")

\* the primary list holds a race whose date cannot be parsed before the race a
\* minute ahead, which tier 1 returns
C20_Witness ==
  /\ Len(nr_calls) = 1
  /\ MixedList(nr_calls[1].resp, "date", 1)
  /\ nr_calls[1].resp.items[1].date.kind = "bad"
  /\ nr_calls[1].resp.items[2] = RSoon
  /\ nr_pc = "done"
  /\ nr_result.race_name = "Soon GP"

(***************************************************************************)
(* Claims about records with a missing or malformed field.                 *)
(***************************************************************************)
\* C21: a position or session record with a missing or malformed field is
\* handled where it stands with a permissive default and never aborts the loop
\* of calculate_standings_from_results: every listed session is processed, and
\* every car the position lists have a record of is credited the points of its
\* records, a missing position counting 0.
C21_SchemaFaultLocal ==
  (st_who = "pair" /\ st_pc = "done" /\ st_sessions # <<>>) =>
    /\ st_idx > Len(st_sessions)
    /\ \A car \in SeenCars : AccPoints(car) = SumPoints(PositionLog, car)
    /\ st_result = RankStandings(st_acc)

(***************************************************************************)
(* Claims about the two accumulators.                                      *)
(***************************************************************************)
\* the sum of the points of an accumulator
RECURSIVE TotalPoints(_)
TotalPoints(d) == IF d = <<>> THEN 0 ELSE Head(d).points + TotalPoints(Tail(d))

\* C22: after any prefix of the sessions has been processed, the sum of the
\* points accumulated for the teams equals the sum of the points accumulated
\* for the drivers (before the cut to the first ten).
C22_PointsConserved ==
  TotalPoints(st_acc.teams) = TotalPoints(st_acc.drivers)

\* a session in which two drivers of one team scored has been processed: the
\* team holds the points of both
C22_Witness ==
  /\ st_pc = "loop"
  /\ st_idx = 2
  /\ Len(st_acc.drivers) = 2
  /\ Len(st_acc.teams) = 1
  /\ st_acc.teams[1].points = 43
  /\ TotalPoints(st_acc.drivers) = 43

(***************************************************************************)
(* Claims about the countdown of a returned race.                          *)
(***************************************************************************)
\* tier 1 or tier 2 of fetch_next_race has returned a race
FilteredTierReturned == nr_pc = "done" /\ Len(nr_calls) \in {1, 2}

\* C23: a NextRace returned by tier 1 or tier 2 of fetch_next_race never carries
\* the countdown "Race completed" or "Unknown", although the countdown reads
\* the clock again after the filter on future races was applied.
C23_CountdownOfFutureRace ==
  FilteredTierReturned => nr_result.time_left.fmt \notin {"Race completed", "Unknown"}

\* the part of C23 the code keeps: the countdown is never "Unknown", and it is
\* "Race completed" only when the race started between the reading of `now` and
\* the reading of the clock by calculate_time_left
C23_CompletedOnlyIfStartedMeanwhile ==
  FilteredTierReturned =>
    /\ nr_result.time_left.fmt # "Unknown"
    /\ nr_result.time_left.fmt = "Race completed" =>
         \E i \in 1..Len(nr_calls[Len(nr_calls)].resp.items) :
           LET e == nr_calls[Len(nr_calls)].resp.items[i]
               start == StartOf(e, IF Len(nr_calls) = 1 THEN "date" ELSE "date_start",
                                Len(nr_calls))
           IN  nr_now < start /\ start < nr_tcalc

(***************************************************************************)
(* Claims relating fetch_fastest_lap and fetch_fastest_laps.               *)
(***************************************************************************)
\* the lap fetch_fastest_lap selects from the lap records received (line 473)
SelectedLap ==
  FastestOf(SelectSeq(fl_calls[Len(fl_calls)].resp.items, IsValidLap))

C24_SameLapTime ==
  HasValidLap =>
    /\ SelectedLap.lap_duration = SelectedLaps[1].lap_duration
    /\ Cardinality({lap.driver_number : lap \in
                      {l \in ValidLaps : l.lap_duration = SelectedLap.lap_duration}}) = 1
         => SelectedLap.driver_number = SelectedLaps[1].driver_number

\* the relation as it stands between the results returned: neither function
\* ever returns a lap built from the records, so it has no case
C24_NoResultFromRecords ==
  HasValidLap =>
    /\ SingleLap(fl_session, fl_calls[Len(fl_calls)].resp) = get_fallback_fastest_lap
    /\ TopLaps(fl_session, fl_calls[Len(fl_calls)].resp) = <<get_fallback_fastest_lap>>
====
